---- MODULE Spec2Model ----
(***************************************************************************)
(* A model of src/Larva_Analyzer.py (class LarvaTurningAnalyzer): the      *)
(* per-frame endpoint store (head_positions, tail_positions), the derived  *)
(* angle stores (body_angles, turning_angles) and the handlers that        *)
(* change them.                                                            *)
(*                                                                         *)
(* Conventions                                                             *)
(*  - A point is <<x, y>> in pixels; roi[:, 0] is p[1], roi[:, 1] is p[2]. *)
(*  - A Python dict is a function whose DOMAIN is the set of its keys.     *)
(*  - self.rois is a sequence; Python index i is position i + 1.  The      *)
(*    entry None is the empty sequence NoRoi: no empty array ever enters   *)
(*    self.rois (read_roi_file wants n_coords > 0, a drawn ROI wants 3     *)
(*    points).                                                             *)
(*  - Angles are integers in thousandths of a degree.                      *)
(*  - Each handler is an operator from the object's state (a record of its *)
(*    fields) to the state it leaves; an action commits one handler.       *)
(***************************************************************************)
EXTENDS Integers, Sequences, FiniteSets, TLC

VARIABLES
    rois,               \* self.rois
    total_frames,       \* self.total_frames (0: no video loaded)
    current_frame,      \* self.current_frame
    roi_offset,         \* self.roi_offset_spinbox.value()
    detection_method,   \* self.detection_method.currentText()
    auto_detect,        \* self.auto_detect_cb.isChecked()
    snap_enabled,       \* self.snap_to_roi_cb.isChecked()
    show_axis,          \* self.show_axis_cb.isChecked()
    manual_adjust_mode, \* self.manual_adjust_mode
    setting_head,       \* self.setting_head
    dragging,           \* self.dragging
    drag_target,        \* self.drag_target
    head_positions,     \* self.head_positions
    tail_positions,     \* self.tail_positions
    body_angles,        \* self.body_angles
    turning_angles,     \* self.turning_angles
    midline_method,     \* self.midline_method.currentText()
    segment_points,     \* self.segment_points
    head_manual,        \* history: frames whose head was last written by click, drag or copy
    tail_manual,        \* history: frames whose tail was last written by click, drag or copy
    raised,             \* history: the last handler ended in an uncaught exception
    steps,              \* number of handlers run so far
    last_op,            \* history: the handler that ran last
    probe               \* input and output of a pure function under test

vars == <<rois, total_frames, current_frame, roi_offset, detection_method,
          auto_detect, snap_enabled, show_axis, manual_adjust_mode,
          setting_head, dragging, drag_target, head_positions,
          tail_positions, body_angles, turning_angles, midline_method,
          segment_points, head_manual, tail_manual, raised, steps, last_op,
          probe>>

-----------------------------------------------------------------------------
(* Bounds of the model *)

NumFrames == 3
MaxOffset == 1
MaxSteps == 6

-----------------------------------------------------------------------------
(* Dictionaries *)

EmptyDict == << >>

Put(d, k, v) == [x \in (DOMAIN d) \cup {k} |-> IF x = k THEN v ELSE d[x]]

Del(d, k) == [x \in (DOMAIN d) \ {k} |-> d[x]]

-----------------------------------------------------------------------------
(* Inputs: contours, ROI lists, pointer positions *)

NoRoi == << >>

\* A diamond: every extreme is attained by exactly one point.
ContourA == << <<20, 0>>, <<40, 20>>, <<20, 40>>, <<0, 20>> >>

\* A triangle: min Y, max X are each attained by two points.
ContourB == << <<0, 0>>, <<40, 0>>, <<40, 40>> >>

\* What load_rois / load_rois_from_folder can leave in self.rois: a list
\* shorter than the video, and a list with a failed read (None) in it.
RoiLists == { <<ContourA, ContourB>>, <<ContourA, NoRoi, ContourB>> }

\* Where the pointer is pressed or moved to, in frame coordinates.
ClickPoints == { <<0, 40>>, <<20, 20>> }

DetectionMethods == {"Anterior = Top", "Anterior = Bottom", "Anterior = Left",
                     "Anterior = Right", "Manual (click on video)"}

ExtremeMethods == DetectionMethods \ {"Manual (click on video)"}

-----------------------------------------------------------------------------
(* numpy helpers *)

\* np.argmin: the first position of the least value (1-based here).
ArgMin(v) ==
    CHOOSE i \in DOMAIN v :
        /\ \A j \in DOMAIN v : v[j] >= v[i]
        /\ \A j \in DOMAIN v : j < i => v[j] > v[i]

\* np.argmax: the first position of the greatest value.
ArgMax(v) ==
    CHOOSE i \in DOMAIN v :
        /\ \A j \in DOMAIN v : v[j] =< v[i]
        /\ \A j \in DOMAIN v : j < i => v[j] < v[i]

Xs(roi) == [i \in DOMAIN roi |-> roi[i][1]]

Ys(roi) == [i \in DOMAIN roi |-> roi[i][2]]

\* np.linalg.norm(a - b) squared: comparisons of distances are comparisons
\* of their squares.
Dist2(a, b) == (a[1] - b[1]) * (a[1] - b[1]) + (a[2] - b[2]) * (a[2] - b[2])

-----------------------------------------------------------------------------
(* Angles *)

Scale == 1000

HalfTurn == 180 * Scale

FullTurn == 360 * Scale

Abs(n) == IF n < 0 THEN -n ELSE n

\* np.degrees(np.arctan2(ady, adx)) for ady, adx >= 0, not both 0, rounded
\* to a thousandth of a degree.  Defined for the slopes the inputs produce.
FirstQuadrant(ady, adx) ==
    CASE ady = 0        -> 0
      [] adx = 0        -> 90 * Scale
      [] ady = adx      -> 45 * Scale
      [] 2 * ady = adx  -> 26565
      [] ady = 2 * adx  -> 63435

\* np.degrees(np.arctan2(dy, dx)), in (-180, 180].
Atan2Deg(dy, dx) ==
    IF dy = 0 /\ dx = 0 THEN 0
    ELSE LET base == FirstQuadrant(Abs(dy), Abs(dx))
         IN IF dx >= 0
            THEN (IF dy >= 0 THEN base ELSE -base)
            ELSE (IF dy >= 0 THEN HalfTurn - base ELSE -(HalfTurn - base))

calculate_body_angle(head, tail) == Atan2Deg(head[2] - tail[2], head[1] - tail[1])

RECURSIVE WhileAbove(_)
WhileAbove(d) == IF d > HalfTurn THEN WhileAbove(d - FullTurn) ELSE d

RECURSIVE WhileBelow(_)
WhileBelow(d) == IF d < -HalfTurn THEN WhileBelow(d + FullTurn) ELSE d

\* A faulty normalisation: the second loop (while angle_diff < -180) left out.
normalize_angle_one_loop(angle_diff) == WhileAbove(angle_diff)

\* The two while loops of analyze_all_frames.
normalize_angle(angle_diff) == WhileBelow(WhileAbove(angle_diff))

-----------------------------------------------------------------------------
(* The object's state as a record *)

self ==
    [rois |-> rois, total_frames |-> total_frames,
     current_frame |-> current_frame, roi_offset |-> roi_offset,
     detection_method |-> detection_method, auto_detect |-> auto_detect,
     snap_enabled |-> snap_enabled, show_axis |-> show_axis,
     manual_adjust_mode |-> manual_adjust_mode, setting_head |-> setting_head,
     dragging |-> dragging, drag_target |-> drag_target,
     head_positions |-> head_positions, tail_positions |-> tail_positions,
     body_angles |-> body_angles, turning_angles |-> turning_angles,
     midline_method |-> midline_method, segment_points |-> segment_points,
     head_manual |-> head_manual, tail_manual |-> tail_manual,
     raised |-> raised]

\* 0 <= roi_index < len(self.rois) and self.rois[roi_index] is not None
HasRoi(s, roi_index) ==
    /\ 0 <= roi_index
    /\ roi_index < Len(s.rois)
    /\ s.rois[roi_index + 1] # NoRoi

RoiAt(s, roi_index) == s.rois[roi_index + 1]

HasBoth(s, f) == f \in DOMAIN s.head_positions /\ f \in DOMAIN s.tail_positions

\* head_positions[f] = head; tail_positions[f] = tail, written by detection.
SetDetected(s, f, head, tail) ==
    [s EXCEPT !.head_positions = Put(@, f, head),
              !.tail_positions = Put(@, f, tail),
              !.head_manual = @ \ {f},
              !.tail_manual = @ \ {f}]

\* head_positions[f] = pos, written by the pointer or by a copy.
SetHeadManual(s, f, pos) ==
    [s EXCEPT !.head_positions = Put(@, f, pos), !.head_manual = @ \cup {f}]

SetTailManual(s, f, pos) ==
    [s EXCEPT !.tail_positions = Put(@, f, pos), !.tail_manual = @ \cup {f}]

-----------------------------------------------------------------------------
(* Endpoint detection *)

Extremes(roi, idx_head, idx_tail) ==
    [raised |-> FALSE, head |-> roi[idx_head], tail |-> roi[idx_tail]]

\* A faulty detection: the tail taken at the same extreme as the head.
detect_endpoints_same_extreme(s, roi) ==
    CASE s.detection_method \in {"Anterior = Top", "Manual (click on video)"} ->
            Extremes(roi, ArgMin(Ys(roi)), ArgMin(Ys(roi)))
      [] s.detection_method = "Anterior = Bottom" ->
            Extremes(roi, ArgMax(Ys(roi)), ArgMax(Ys(roi)))
      [] s.detection_method = "Anterior = Left" ->
            Extremes(roi, ArgMin(Xs(roi)), ArgMin(Xs(roi)))
      [] OTHER ->
            Extremes(roi, ArgMax(Xs(roi)), ArgMax(Xs(roi)))

\* detect_endpoints(roi).  The result carries raised = TRUE where the code
\* raises KeyError (self.tail_positions[self.current_frame] with no entry).
detect_endpoints(s, roi) ==
    CASE s.detection_method = "Anterior = Top" ->
            Extremes(roi, ArgMin(Ys(roi)), ArgMax(Ys(roi)))
      [] s.detection_method = "Anterior = Bottom" ->
            Extremes(roi, ArgMax(Ys(roi)), ArgMin(Ys(roi)))
      [] s.detection_method = "Anterior = Left" ->
            Extremes(roi, ArgMin(Xs(roi)), ArgMax(Xs(roi)))
      [] s.detection_method = "Anterior = Right" ->
            Extremes(roi, ArgMax(Xs(roi)), ArgMin(Xs(roi)))
      [] OTHER ->
            IF s.current_frame \in DOMAIN s.head_positions
            THEN IF s.current_frame \in DOMAIN s.tail_positions
                 THEN [raised |-> FALSE,
                       head |-> s.head_positions[s.current_frame],
                       tail |-> s.tail_positions[s.current_frame]]
                 ELSE [raised |-> TRUE, head |-> <<0, 0>>, tail |-> <<0, 0>>]
            ELSE Extremes(roi, ArgMin(Ys(roi)), ArgMax(Ys(roi)))

\* A faulty snap_to_roi: the index of the nearest point is taken among
\* roi[1:] and used on roi, so the point before the nearest one is returned
\* (the last one for the first).
snap_to_roi_shifted_index(s, point) ==
    LET roi_index == s.current_frame + s.roi_offset
    IN IF ~HasRoi(s, roi_index) THEN point
       ELSE LET roi == RoiAt(s, roi_index)
                distances == [i \in DOMAIN roi |-> Dist2(roi[i], point)]
            IN roi[IF ArgMin(distances) = 1 THEN Len(roi)
                   ELSE ArgMin(distances) - 1]

\* snap_to_roi(point): the nearest point of the current frame's contour.
snap_to_roi(s, point) ==
    LET roi_index == s.current_frame + s.roi_offset
    IN IF ~HasRoi(s, roi_index) THEN point
       ELSE LET roi == RoiAt(s, roi_index)
                distances == [i \in DOMAIN roi |-> Dist2(roi[i], point)]
            IN roi[ArgMin(distances)]

-----------------------------------------------------------------------------
(* update_display: the part that writes the stores *)

\* Nothing is done without a frame to draw on.  The "Show ROI contour" box
\* (show_roi_cb) guards the whole block and stays checked, as
\* create_control_panel leaves it; unchecked, update_display writes nothing.
update_display(s) ==
    LET cf == s.current_frame
        roi_index == cf + s.roi_offset
    IN IF s.total_frames = 0 \/ ~HasRoi(s, roi_index) THEN s
       ELSE LET roi == RoiAt(s, roi_index)
                detect == /\ s.auto_detect
                          /\ ~s.dragging
                          /\ ~HasBoth(s, cf)
                d == detect_endpoints(s, roi)
            IN IF detect /\ d.raised THEN [s EXCEPT !.raised = TRUE]
               ELSE LET s1 == IF detect THEN SetDetected(s, cf, d.head, d.tail)
                              ELSE s
                    IN IF HasBoth(s1, cf) /\ s1.show_axis
                       THEN [s1 EXCEPT !.body_angles =
                                Put(@, cf, calculate_body_angle(
                                              s1.head_positions[cf],
                                              s1.tail_positions[cf]))]
                       ELSE s1

-----------------------------------------------------------------------------
(* Handlers *)

DragThreshold == 25

\* np.linalg.norm(click_pos - pos) < self.drag_threshold / self.zoom_level,
\* at the zoom level 1.0 the window starts with.
Near(a, b) == Dist2(a, b) < DragThreshold * DragThreshold

\* on_frame_changed(value): display_frame() ends in update_display().
on_frame_changed(s, value) ==
    update_display([s EXCEPT !.current_frame = value])

toggle_manual_mode(s, enabled) ==
    IF enabled
    THEN [s EXCEPT !.manual_adjust_mode = TRUE, !.setting_head = TRUE]
    ELSE [s EXCEPT !.manual_adjust_mode = FALSE]

\* on_video_click with the left button, outside ROI drawing mode.
on_video_click(s, click_pos) ==
    LET cf == s.current_frame
    IN IF s.total_frames = 0 THEN s
       ELSE IF cf \in DOMAIN s.head_positions
               /\ Near(click_pos, s.head_positions[cf])
       THEN [s EXCEPT !.dragging = TRUE, !.drag_target = "head"]
       ELSE IF cf \in DOMAIN s.tail_positions
               /\ Near(click_pos, s.tail_positions[cf])
       THEN [s EXCEPT !.dragging = TRUE, !.drag_target = "tail"]
       ELSE IF s.manual_adjust_mode
       THEN LET final_pos == IF s.snap_enabled THEN snap_to_roi(s, click_pos)
                             ELSE click_pos
            IN IF s.setting_head
               THEN update_display(
                        [SetHeadManual(s, cf, final_pos) EXCEPT !.setting_head = FALSE])
               ELSE update_display(
                        [SetTailManual(s, cf, final_pos) EXCEPT !.setting_head = TRUE])
       ELSE s

\* on_video_move while not panning.
on_video_move(s, mouse_pos) ==
    LET cf == s.current_frame
    IN IF s.total_frames = 0 \/ ~s.dragging THEN s
       ELSE LET final_pos == IF s.snap_enabled THEN snap_to_roi(s, mouse_pos)
                             ELSE mouse_pos
            IN CASE s.drag_target = "head" ->
                        update_display(SetHeadManual(s, cf, final_pos))
                 [] s.drag_target = "tail" ->
                        update_display(SetTailManual(s, cf, final_pos))
                 [] OTHER -> update_display(s)

\* on_video_release with the left button.
on_video_release(s) ==
    IF s.dragging
    THEN update_display([s EXCEPT !.dragging = FALSE, !.drag_target = "None"])
    ELSE s

\* A swap written without the tuple assignment: the head is overwritten
\* before it is read, so both ends become the old tail.
swap_head_tail_no_temp(s) ==
    LET cf == s.current_frame
    IN IF HasBoth(s, cf)
       THEN update_display(
                [s EXCEPT !.head_positions = Put(@, cf, s.tail_positions[cf]),
                          !.head_manual = IF cf \in s.tail_manual
                                          THEN @ \cup {cf} ELSE @ \ {cf}])
       ELSE s

\* swap_head_tail: exchange the two entries of the displayed frame when both
\* exist, then refresh the display.
swap_head_tail(s) ==
    LET cf == s.current_frame
    IN IF HasBoth(s, cf)
       THEN update_display(
                [s EXCEPT !.head_positions = Put(@, cf, s.tail_positions[cf]),
                          !.tail_positions = Put(@, cf, s.head_positions[cf]),
                          !.head_manual = IF cf \in s.tail_manual
                                          THEN @ \cup {cf} ELSE @ \ {cf},
                          !.tail_manual = IF cf \in s.head_manual
                                          THEN @ \cup {cf} ELSE @ \ {cf}])
       ELSE s

clear_current_frame(s) ==
    LET cf == s.current_frame
    IN update_display(
           [s EXCEPT !.head_positions = Del(@, cf),
                     !.tail_positions = Del(@, cf),
                     !.head_manual = @ \ {cf},
                     !.tail_manual = @ \ {cf}])

redetect_current(s) ==
    LET roi_index == s.current_frame + s.roi_offset
    IN IF HasRoi(s, roi_index)
       THEN LET d == detect_endpoints(s, RoiAt(s, roi_index))
            IN IF d.raised THEN [s EXCEPT !.raised = TRUE]
               ELSE update_display(SetDetected(s, s.current_frame, d.head, d.tail))
       ELSE s

\* The loop of apply_endpoints_to_all from index i on; an exception leaves
\* the entries written so far and ends the handler.
RECURSIVE apply_loop(_, _)
apply_loop(s, i) ==
    IF i >= Len(s.rois) THEN s
    ELSE IF s.rois[i + 1] # NoRoi
            /\ (i \notin DOMAIN s.head_positions \/ i \notin DOMAIN s.tail_positions)
    THEN LET d == detect_endpoints(s, s.rois[i + 1])
         IN IF d.raised THEN [s EXCEPT !.raised = TRUE]
            ELSE apply_loop(SetDetected(s, i, d.head, d.tail), i + 1)
    ELSE apply_loop(s, i + 1)

apply_endpoints_to_all(s) ==
    IF Len(s.rois) = 0 THEN s
    ELSE LET t == apply_loop(s, 0)
         IN IF t.raised THEN t ELSE update_display(t)

\* The loop of force_redetect_all from index i on.
RECURSIVE force_loop(_, _)
force_loop(s, i) ==
    IF i >= Len(s.rois) THEN s
    ELSE IF s.rois[i + 1] # NoRoi
    THEN LET d == detect_endpoints(s, s.rois[i + 1])
         IN IF d.raised THEN [s EXCEPT !.raised = TRUE]
            ELSE force_loop(SetDetected(s, i, d.head, d.tail), i + 1)
    ELSE force_loop(s, i + 1)

\* reply is the answer to the confirmation dialog.
force_redetect_all(s, reply) ==
    IF Len(s.rois) = 0 \/ reply = "No" THEN s
    ELSE LET cleared == [s EXCEPT !.head_positions = EmptyDict,
                                  !.tail_positions = EmptyDict,
                                  !.head_manual = {},
                                  !.tail_manual = {}]
             t == force_loop(cleared, 0)
         IN IF t.raised THEN t ELSE update_display(t)

\* sorted(d.keys()) as a sequence.
RECURSIVE SortedKeys(_)
SortedKeys(keys) ==
    IF keys = {} THEN << >>
    ELSE LET least == CHOOSE k \in keys : \A j \in keys : k =< j
         IN <<least>> \o SortedKeys(keys \ {least})

\* The body-angle loop of analyze_all_frames.
analyze_body_angles(s) ==
    LET done == {i \in 0 .. Len(s.rois) - 1 : HasBoth(s, i)}
    IN [s EXCEPT !.body_angles =
           [k \in (DOMAIN s.body_angles) \cup done |->
               IF k \in done
               THEN calculate_body_angle(s.head_positions[k], s.tail_positions[k])
               ELSE s.body_angles[k]]]

\* The turning-angle loop of analyze_all_frames: turning_angles[i] for the
\* list position i of the sorted angles.
analyze_turning_angles(s) ==
    LET keys == SortedKeys(DOMAIN s.body_angles)
        n == Len(keys)
        written == 1 .. n - 1
    IN [s EXCEPT !.turning_angles =
           [i \in (DOMAIN s.turning_angles) \cup written |->
               IF i \in written
               THEN normalize_angle(s.body_angles[keys[i + 1]] - s.body_angles[keys[i]])
               ELSE s.turning_angles[i]]]

analyze_all_frames(s) ==
    IF Len(s.rois) = 0 THEN s
    ELSE LET t == apply_endpoints_to_all(s)
         IN IF t.raised THEN t
            ELSE analyze_turning_angles(analyze_body_angles(t))

\* copy_to_adjacent(direction); frame_slider.setValue runs on_frame_changed.
copy_to_adjacent(s, direction) ==
    LET cf == s.current_frame
        target_frame == cf + direction
    IN IF ~HasBoth(s, cf) THEN s
       ELSE IF target_frame < 0 \/ target_frame >= s.total_frames THEN s
       ELSE LET head_pos == s.head_positions[cf]
                tail_pos == s.tail_positions[cf]
                moved == on_frame_changed(s, target_frame)
                new_head == IF s.snap_enabled THEN snap_to_roi(moved, head_pos)
                            ELSE head_pos
                new_tail == IF s.snap_enabled THEN snap_to_roi(moved, tail_pos)
                            ELSE tail_pos
            IN update_display(
                   SetTailManual(SetHeadManual(moved, target_frame, new_head),
                                 target_frame, new_tail))

-----------------------------------------------------------------------------
(* The state machine *)

Commit(s) ==
    /\ rois' = s.rois
    /\ total_frames' = s.total_frames
    /\ current_frame' = s.current_frame
    /\ roi_offset' = s.roi_offset
    /\ detection_method' = s.detection_method
    /\ auto_detect' = s.auto_detect
    /\ snap_enabled' = s.snap_enabled
    /\ show_axis' = s.show_axis
    /\ manual_adjust_mode' = s.manual_adjust_mode
    /\ setting_head' = s.setting_head
    /\ dragging' = s.dragging
    /\ drag_target' = s.drag_target
    /\ head_positions' = s.head_positions
    /\ tail_positions' = s.tail_positions
    /\ body_angles' = s.body_angles
    /\ turning_angles' = s.turning_angles
    /\ midline_method' = s.midline_method
    /\ segment_points' = s.segment_points
    /\ head_manual' = s.head_manual
    /\ tail_manual' = s.tail_manual
    /\ raised' = s.raised

\* The state a handler starts from.
Entry == [self EXCEPT !.raised = FALSE]

Step(op) ==
    /\ steps < MaxSteps
    /\ steps' = steps + 1
    /\ last_op' = op
    /\ UNCHANGED probe

\* __init__: empty stores, the checkboxes as create_control_panel sets them.
InitObject ==
    /\ rois = << >>
    /\ total_frames = 0
    /\ current_frame = 0
    /\ roi_offset = 0
    /\ detection_method = "Anterior = Top"
    /\ auto_detect = TRUE
    /\ snap_enabled = TRUE
    /\ show_axis = TRUE
    /\ manual_adjust_mode = FALSE
    /\ setting_head = TRUE
    /\ dragging = FALSE
    /\ drag_target = "None"
    /\ head_positions = EmptyDict
    /\ tail_positions = EmptyDict
    /\ body_angles = EmptyDict
    /\ turning_angles = EmptyDict
    /\ midline_method = "Skeleton"
    /\ segment_points = EmptyDict
    /\ head_manual = {}
    /\ tail_manual = {}
    /\ raised = FALSE
    /\ steps = 0
    /\ last_op = "__init__"

Init == InitObject /\ probe = [fn |-> "none"]

\* load_standard_video: a video of NumFrames frames, then display_frame().
LoadVideo ==
    /\ Step("load_video")
    /\ Commit(update_display([Entry EXCEPT !.total_frames = NumFrames]))

\* load_rois / load_rois_from_folder.
LoadRois ==
    /\ Step("load_rois")
    /\ \E r \in RoiLists : Commit(update_display([Entry EXCEPT !.rois = r]))

OnFrameChanged ==
    /\ Step("on_frame_changed")
    /\ \E value \in 0 .. total_frames - 1 :
          /\ value # current_frame
          /\ Commit(on_frame_changed(Entry, value))

\* roi_offset_spinbox.valueChanged -> update_display
SetRoiOffset ==
    /\ Step("roi_offset_changed")
    /\ \E o \in -MaxOffset .. MaxOffset :
          /\ o # roi_offset
          /\ Commit(update_display([Entry EXCEPT !.roi_offset = o]))

\* detection_method.currentIndexChanged -> update_display
SetDetectionMethod ==
    /\ Step("detection_method_changed")
    /\ \E m \in DetectionMethods :
          /\ m # detection_method
          /\ Commit(update_display([Entry EXCEPT !.detection_method = m]))

\* auto_detect_cb.stateChanged -> on_auto_detect_changed
ToggleAutoDetect ==
    /\ Step("on_auto_detect_changed")
    /\ Commit(update_display([Entry EXCEPT !.auto_detect = ~@]))

\* show_axis_cb.stateChanged -> update_display
ToggleShowAxis ==
    /\ Step("show_axis_changed")
    /\ Commit(update_display([Entry EXCEPT !.show_axis = ~@]))

\* snap_to_roi_cb has no handler.
ToggleSnap ==
    /\ Step("snap_changed")
    /\ Commit([Entry EXCEPT !.snap_enabled = ~@])

ToggleManualMode ==
    /\ Step("toggle_manual_mode")
    /\ Commit(toggle_manual_mode(Entry, ~manual_adjust_mode))

OnVideoClick ==
    /\ Step("on_video_click")
    /\ \E p \in ClickPoints : Commit(on_video_click(Entry, p))

OnVideoMove ==
    /\ Step("on_video_move")
    /\ dragging
    /\ \E p \in ClickPoints : Commit(on_video_move(Entry, p))

OnVideoRelease ==
    /\ Step("on_video_release")
    /\ dragging
    /\ Commit(on_video_release(Entry))

SwapHeadTail == Step("swap_head_tail") /\ Commit(swap_head_tail(Entry))

ClearCurrentFrame == Step("clear_current_frame") /\ Commit(clear_current_frame(Entry))

RedetectCurrent == Step("redetect_current") /\ Commit(redetect_current(Entry))

CopyToAdjacent ==
    /\ Step("copy_to_adjacent")
    /\ \E direction \in {-1, 1} : Commit(copy_to_adjacent(Entry, direction))

ApplyEndpointsToAll == Step("apply_endpoints_to_all") /\ Commit(apply_endpoints_to_all(Entry))

ForceRedetectAll ==
    \E reply \in {"Yes", "No"} :
        /\ Step(IF reply = "Yes" THEN "force_redetect_all" ELSE "force_redetect_all declined")
        /\ Commit(force_redetect_all(Entry, reply))

AnalyzeAllFrames == Step("analyze_all_frames") /\ Commit(analyze_all_frames(Entry))

Next ==
    \/ LoadVideo
    \/ LoadRois
    \/ OnFrameChanged
    \/ SetRoiOffset
    \/ SetDetectionMethod
    \/ ToggleAutoDetect
    \/ ToggleShowAxis
    \/ ToggleSnap
    \/ ToggleManualMode
    \/ OnVideoClick
    \/ OnVideoMove
    \/ OnVideoRelease
    \/ SwapHeadTail
    \/ ClearCurrentFrame
    \/ RedetectCurrent
    \/ CopyToAdjacent
    \/ ApplyEndpointsToAll
    \/ ForceRedetectAll
    \/ AnalyzeAllFrames

Spec == Init /\ [][Next]_vars

-----------------------------------------------------------------------------
(* detect_endpoints as a pure function of the contour and the strategy *)

MaxContourLen == 3

GridCoords == {0, 20, 40}

GridPoints == GridCoords \X GridCoords

\* Every non-empty contour of at most MaxContourLen grid points.
Contours == UNION {[1 .. k -> GridPoints] : k \in 1 .. MaxContourLen}

InitDetect ==
    /\ InitObject
    /\ probe \in [fn : {"detect_endpoints"}, roi : Contours,
                  method : DetectionMethods, done : {FALSE},
                  head : {<<0, 0>>}, tail : {<<0, 0>>}]

\* One call of detect_endpoints on a freshly constructed object.
DetectEndpoints ==
    /\ ~probe.done
    /\ LET d == detect_endpoints([Entry EXCEPT !.detection_method = probe.method],
                                 probe.roi)
       IN probe' = [probe EXCEPT !.done = TRUE, !.head = d.head, !.tail = d.tail]
    /\ UNCHANGED <<rois, total_frames, current_frame, roi_offset,
                   detection_method, auto_detect, snap_enabled, show_axis,
                   manual_adjust_mode, setting_head, dragging, drag_target,
                   head_positions, tail_positions, body_angles, turning_angles,
                   midline_method, segment_points, head_manual, tail_manual,
                   raised, steps, last_op>>

SpecDetect == InitDetect /\ [][DetectEndpoints]_vars

-----------------------------------------------------------------------------
(* The turning-angle normalisation as a pure function of two body angles *)

AnglesPerTurn == 36

AngleStep == FullTurn \div AnglesPerTurn

\* Body angles in (-180, 180], AngleStep apart.
BodyAngleValues ==
    {k * AngleStep : k \in {j \in -AnglesPerTurn .. AnglesPerTurn :
                               -HalfTurn < j * AngleStep /\ j * AngleStep =< HalfTurn}}

InitTurning ==
    /\ InitObject
    /\ probe \in [fn : {"turning_angle"}, prev : BodyAngleValues,
                  curr : BodyAngleValues, done : {FALSE}, out : {0}]

\* angle_diff = angles[i] - angles[i-1], then the two loops.
TurningAngle ==
    /\ ~probe.done
    /\ probe' = [probe EXCEPT !.done = TRUE,
                              !.out = normalize_angle(probe.curr - probe.prev)]
    /\ UNCHANGED <<rois, total_frames, current_frame, roi_offset,
                   detection_method, auto_detect, snap_enabled, show_axis,
                   manual_adjust_mode, setting_head, dragging, drag_target,
                   head_positions, tail_positions, body_angles, turning_angles,
                   midline_method, segment_points, head_manual, tail_manual,
                   raised, steps, last_op>>

SpecTurning == InitTurning /\ [][TurningAngle]_vars

-----------------------------------------------------------------------------
(* Claims *)

Range(f) == {f[i] : i \in DOMAIN f}

Min(S) == CHOOSE m \in S : \A x \in S : m =< x

Max(S) == CHOOSE m \in S : \A x \in S : m >= x

\* C6: for a non-empty contour and each of the four extreme strategies,
\* detect_endpoints returns two points of the contour, the head at the
\* extremum of the chosen axis (min Y, max Y, min X, max X), the tail at the
\* opposite extremum, and head = tail only if all points of the contour
\* have the same coordinate on that axis.
C6_DetectExtremes ==
    (probe.fn = "detect_endpoints" /\ probe.done /\ probe.method \in ExtremeMethods) =>
        LET roi == probe.roi
            m == probe.method
            axis == IF m \in {"Anterior = Top", "Anterior = Bottom"} THEN 2 ELSE 1
            coords == {roi[i][axis] : i \in DOMAIN roi}
            head_at_min == m \in {"Anterior = Top", "Anterior = Left"}
        IN /\ probe.head \in Range(roi)
           /\ probe.tail \in Range(roi)
           /\ probe.head[axis] = (IF head_at_min THEN Min(coords) ELSE Max(coords))
           /\ probe.tail[axis] = (IF head_at_min THEN Max(coords) ELSE Min(coords))
           /\ (probe.head = probe.tail => Cardinality(coords) = 1)

\* C6 witness: "Anterior = Right" has run on a three-point contour with
\* two points at the greatest X, and returned distinct head and tail.
C6_Witness ==
    /\ probe.fn = "detect_endpoints"
    /\ probe.done
    /\ probe.method = "Anterior = Right"
    /\ probe.roi = << <<0, 20>>, <<40, 0>>, <<40, 40>> >>
    /\ probe.head = <<40, 0>>
    /\ probe.tail = <<0, 20>>

\* C9 as stated: the turning angle is congruent to curr - prev modulo 360
\* and lies in (-180, 180], so -180 is never produced; 170 then -170 gives 20.
C9_HalfOpenRange ==
    (probe.fn = "turning_angle" /\ probe.done) =>
        /\ (probe.out - (probe.curr - probe.prev)) % FullTurn = 0
        /\ -HalfTurn < probe.out
        /\ probe.out =< HalfTurn
        /\ (probe.prev = 170 * Scale /\ probe.curr = -170 * Scale => probe.out = 20 * Scale)

\* C9 amended: the turning angle is congruent to curr - prev modulo 360 and
\* lies in the closed range [-180, 180]; it is -180 exactly when
\* curr - prev = -180; 170 then -170 gives 20.
C9_ClosedRange ==
    (probe.fn = "turning_angle" /\ probe.done) =>
        /\ (probe.out - (probe.curr - probe.prev)) % FullTurn = 0
        /\ -HalfTurn =< probe.out
        /\ probe.out =< HalfTurn
        /\ (probe.out = -HalfTurn <=> probe.curr - probe.prev = -HalfTurn)
        /\ (probe.prev = 170 * Scale /\ probe.curr = -170 * Scale => probe.out = 20 * Scale)

\* C9 witness: the normalisation has run on 170 then -170 and produced 20.
C9_Witness ==
    /\ probe.fn = "turning_angle"
    /\ probe.done
    /\ probe.prev = 170 * Scale
    /\ probe.curr = -170 * Scale
    /\ probe.out = 20 * Scale

-----------------------------------------------------------------------------
(* Claims about the endpoint store *)

\* The frames of the loaded video.
VideoFrames == 0 .. total_frames - 1

\* Frame f has a contour: index f + offset is in the list and not None.
FrameHasContour(f) == HasRoi(self, f + roi_offset)

FrameContour(f) == RoiAt(self, f + roi_offset)

Stored == (DOMAIN head_positions) \cup (DOMAIN tail_positions)

\* Frame f's head or tail entry after the step differs from the one before.
Rewritten(f) ==
    \/ /\ f \in DOMAIN head_positions'
       /\ (f \in DOMAIN head_positions => head_positions'[f] # head_positions[f])
    \/ /\ f \in DOMAIN tail_positions'
       /\ (f \in DOMAIN tail_positions => tail_positions'[f] # tail_positions[f])

\* What the selected strategy detects on a contour when no entry exists.
FreshDetect(roi) ==
    detect_endpoints([self EXCEPT !.head_positions = EmptyDict,
                                  !.tail_positions = EmptyDict], roi)

\* The fields of the object other than the two endpoint stores and the
\* body angles.
OtherFields ==
    <<rois, total_frames, current_frame, roi_offset, detection_method,
      auto_detect, snap_enabled, show_axis, manual_adjust_mode, setting_head,
      dragging, drag_target, turning_angles, midline_method, segment_points>>

\* C1: with an extreme strategy, apply-to-all leaves the head and tail of
\* every frame that had both as they were, and afterwards every frame that
\* has a contour has both a head and a tail.
C1_ApplyToAll ==
    [][(last_op' = "apply_endpoints_to_all" /\ detection_method \in ExtremeMethods) =>
          /\ \A f \in (DOMAIN head_positions) \cap (DOMAIN tail_positions) :
                /\ f \in DOMAIN head_positions'
                /\ f \in DOMAIN tail_positions'
                /\ head_positions'[f] = head_positions[f]
                /\ tail_positions'[f] = tail_positions[f]
          /\ \A f \in VideoFrames :
                FrameHasContour(f) =>
                    f \in DOMAIN head_positions' /\ f \in DOMAIN tail_positions'
      ]_vars

\* C2: after a confirmed force-redetect-all every frame that has a contour
\* holds the head and tail the selected strategy detects on that frame's
\* contour, whatever it held before.
C2_ForceRedetectAll ==
    [][(last_op' = "force_redetect_all" /\ Len(rois) > 0) =>
          \A f \in VideoFrames :
              FrameHasContour(f) =>
                  /\ f \in DOMAIN head_positions'
                  /\ f \in DOMAIN tail_positions'
                  /\ head_positions'[f] = FreshDetect(FrameContour(f)).head
                  /\ tail_positions'[f] = FreshDetect(FrameContour(f)).tail
      ]_vars

\* C3: a head or tail set by click, drag or copy is not replaced by a
\* detected point, except by the operations that re-detect on request
\* (force-redetect-all, re-detect of the displayed frame), by a clear of that
\* frame, or by a swap (which moves the point to the other end).
C3_ManualPreserved ==
    [][\A f \in head_manual \cup tail_manual :
          (\/ (f \in head_manual /\ f \in DOMAIN head_positions' /\ f \notin head_manual')
           \/ (f \in tail_manual /\ f \in DOMAIN tail_positions' /\ f \notin tail_manual'))
          => \/ last_op' \in {"force_redetect_all", "redetect_current", "swap_head_tail"}
             \/ (last_op' = "clear_current_frame" /\ f = current_frame)
      ]_vars

\* C4: a frame that has an endpoint entry keeps one unless the clear
\* operation is applied to that frame.
C4_OnlyClearRemoves ==
    [][\A f \in Stored :
          \/ f \in DOMAIN head_positions'
          \/ f \in DOMAIN tail_positions'
          \/ (last_op' = "clear_current_frame" /\ f = current_frame)
      ]_vars

\* C5: with an extreme strategy, every operation that derives endpoints for
\* a frame f (re-detect, apply-to-all, force-redetect-all, analyze-all) takes
\* them from the contour at index f + offset and stores them under key f, and
\* analyze-all stores under key f the body angle of frame f's head and tail.
C5_OffsetEverywhere ==
    [][(/\ last_op' \in {"redetect_current", "apply_endpoints_to_all",
                         "force_redetect_all", "analyze_all_frames"}
        /\ detection_method \in ExtremeMethods) =>
          /\ \A f \in (DOMAIN head_positions') \cup (DOMAIN tail_positions') :
                Rewritten(f) =>
                    /\ FrameHasContour(f)
                    /\ f \in DOMAIN head_positions'
                    /\ f \in DOMAIN tail_positions'
                    /\ head_positions'[f] = FreshDetect(FrameContour(f)).head
                    /\ tail_positions'[f] = FreshDetect(FrameContour(f)).tail
          /\ last_op' = "analyze_all_frames" =>
                \A f \in DOMAIN body_angles' :
                    (f \notin DOMAIN body_angles \/ body_angles'[f] # body_angles[f]) =>
                        /\ f \in DOMAIN head_positions'
                        /\ f \in DOMAIN tail_positions'
                        /\ body_angles'[f] = calculate_body_angle(head_positions'[f],
                                                                  tail_positions'[f])
      ]_vars

\* C7: with the "manual" strategy (stated at ROI offset 0, where frame f's
\* contour is rois[f] for every operation) no handler raises, and a frame an
\* operation resolves keeps its own pair when it has one and otherwise gets
\* head = the min-Y point and tail = the max-Y point of its own contour.
C7_ManualStrategy ==
    [][(detection_method = "Manual (click on video)" /\ roi_offset = 0) =>
          /\ ~raised'
          /\ last_op' \in {"redetect_current", "apply_endpoints_to_all",
                           "analyze_all_frames"} =>
                \A f \in (DOMAIN head_positions') \cup (DOMAIN tail_positions') :
                    Rewritten(f) =>
                        /\ ~HasBoth(self, f)
                        /\ HasRoi(self, f)
                        /\ f \in DOMAIN head_positions'
                        /\ f \in DOMAIN tail_positions'
                        /\ head_positions'[f] = RoiAt(self, f)[ArgMin(Ys(RoiAt(self, f)))]
                        /\ tail_positions'[f] = RoiAt(self, f)[ArgMax(Ys(RoiAt(self, f)))]
      ]_vars

\* Swapping twice gives back the head and tail stores.
SwapTwiceRestores ==
    LET twice == swap_head_tail(swap_head_tail(Entry))
    IN /\ twice.head_positions = head_positions
       /\ twice.tail_positions = tail_positions

\* The head and tail stores after a swap of the displayed frame.
SwapExchanges ==
    IF HasBoth(self, current_frame)
    THEN /\ head_positions' = Put(head_positions, current_frame,
                                  tail_positions[current_frame])
         /\ tail_positions' = Put(tail_positions, current_frame,
                                  head_positions[current_frame])
    ELSE /\ head_positions' = head_positions
         /\ tail_positions' = tail_positions

HasPredecessor(f) == \E p \in DOMAIN body_angles : p < f

Predecessor(f) == Max({p \in DOMAIN body_angles : p < f})

\* C10: after analyze-all, every frame f with a body angle and a predecessor
\* p has the turning angle normalize(angle[f] - angle[p]) stored for f, and
\* the first frame with a body angle has no turning angle.
C10_TurningByFrame ==
    (last_op = "analyze_all_frames" /\ ~raised /\ Len(rois) > 0) =>
        \A f \in DOMAIN body_angles :
            IF HasPredecessor(f)
            THEN /\ f \in DOMAIN turning_angles
                 /\ turning_angles[f] =
                       normalize_angle(body_angles[f] - body_angles[Predecessor(f)])
            ELSE f \notin DOMAIN turning_angles

-----------------------------------------------------------------------------
(* Midlines.  Contour points, head and tail are in pixels; the points of a *)
(* midline are in hundredths of a pixel (Fix).                             *)

SubPixel == 100

Fix(p) == <<p[1] * SubPixel, p[2] * SubPixel>>

\* The return value None of the midline functions.
NoMidline == << >>

\* n_points of calculate_simple_midline.
n_points == 30

\* len(u_new): the number of points the spline is evaluated at.
SplinePoints == 98

\* start + (num / den) * (end - start), coordinates rounded down.
Lerp(start, end, num, den) ==
    <<start[1] + ((end[1] - start[1]) * num) \div den,
      start[2] + ((end[2] - start[2]) * num) \div den>>

RECURSIVE SumOver(_, _)
SumOver(S, f) ==
    IF S = {} THEN 0
    ELSE LET k == CHOOSE x \in S : TRUE IN f[k] + SumOver(S \ {k}, f)

\* np.mean(nearby_points, axis = 0) of the contour points at the positions S.
Centroid(roi, S) ==
    <<(SumOver(S, Xs(roi)) * SubPixel) \div Cardinality(S),
      (SumOver(S, Ys(roi)) * SubPixel) \div Cardinality(S)>>

\* The i-th intermediate point of calculate_simple_midline: the centroid of
\* the contour points whose projection on the head-tail axis is within
\* 1.5 / (n_points - 1) of the axis length from i / (n_points - 1) of it,
\* the point of the axis itself when there is none.  With
\* dot = (roi[k] - head) . (tail - head) and L2 = |tail - head|^2,
\* |dot / L - t L| < 1.5 L / (n_points - 1) is
\* |2 (n_points - 1) dot - 2 i L2| < 3 L2.
IntermediatePoint(roi, head, tail, i) ==
    LET L2 == Dist2(head, tail)
        dot(k) == (roi[k][1] - head[1]) * (tail[1] - head[1])
                  + (roi[k][2] - head[2]) * (tail[2] - head[2])
        nearby == {k \in DOMAIN roi :
                      Abs(2 * (n_points - 1) * dot(k) - 2 * i * L2) < 3 * L2}
    IN IF nearby # {} THEN Centroid(roi, nearby)
       ELSE Lerp(Fix(head), Fix(tail), i, n_points - 1)

\* splprep / splev: what the smoothing returns is not computed here.  It is
\* SplinePoints points taken along the points it was given, moved by
\* spline.drift (a smoothing spline does not pass through its input), or an
\* exception (spline.raised).
Spline(points, spline) ==
    [j \in 1 .. SplinePoints |->
        LET q == points[1 + ((j - 1) * (Len(points) - 1)) \div (SplinePoints - 1)]
        IN <<q[1] + spline.drift[1], q[2] + spline.drift[2]>>]

calculate_simple_midline(roi, head, tail, spline) ==
    IF Dist2(head, tail) < 1 THEN NoMidline
    ELSE LET midline_points ==
                 <<Fix(head)>>
                 \o [i \in 1 .. n_points - 2 |-> IntermediatePoint(roi, head, tail, i)]
                 \o <<Fix(tail)>>
         IN IF Len(midline_points) < 3 THEN NoMidline
            ELSE IF Len(midline_points) > 4 /\ ~spline.raised
                 THEN <<Fix(head)>>
                      \o Spline(SubSeq(midline_points, 2, Len(midline_points) - 1), spline)
                      \o <<Fix(tail)>>
                 ELSE midline_points

\* ordered_points[::step]
Stride(ordered_points, step) ==
    [j \in 1 .. (Len(ordered_points) + step - 1) \div step |->
        ordered_points[1 + (j - 1) * step]]

\* step = max(1, len(ordered_points) // 30); sampled = ordered_points[::step]
subsample(ordered_points) ==
    LET step == IF Len(ordered_points) \div 30 > 1
                THEN Len(ordered_points) \div 30 ELSE 1
    IN Stride(ordered_points, step)

\* calculate_skeleton_midline from the ordered skeleton path on (line 2306).
\* The mask, its skeleton and the greedy ordering of the skeleton's pixels
\* are not computed here: skel.failed says that they gave None or raised,
\* skel.ordered_points is the path they gave.
skeleton_from_path(head, tail, skel, spline) ==
    LET ordered_points == skel.ordered_points
    IN IF skel.failed \/ Len(ordered_points) < 5 THEN NoMidline
       ELSE IF Len(ordered_points) > 10
            THEN LET sampled == subsample(ordered_points)
                 IN IF Len(sampled) < 4 \/ spline.raised
                    THEN <<Fix(head)>> \o sampled \o <<Fix(tail)>>
                    ELSE <<Fix(head)>> \o Spline(sampled, spline) \o <<Fix(tail)>>
            ELSE <<Fix(head)>> \o ordered_points \o <<Fix(tail)>>

\* A faulty skeleton midline: the smoothed path returned as it is, without
\* head and tail put at its ends.
calculate_skeleton_midline_unforced(roi, head, tail, skel, spline) ==
    LET forced == skeleton_from_path(head, tail, skel, spline)
    IN IF Len(forced) = SplinePoints + 2
       THEN SubSeq(forced, 2, Len(forced) - 1)
       ELSE forced

calculate_skeleton_midline(roi, head, tail, skel, spline) ==
    skeleton_from_path(head, tail, skel, spline)

\* calculate_midline: the selected method, the simple one when the skeleton
\* gives None.
calculate_midline(s, roi, head, tail, skel, spline) ==
    IF s.midline_method = "Simple interpolation"
    THEN calculate_simple_midline(roi, head, tail, spline)
    ELSE LET midline == calculate_skeleton_midline(roi, head, tail, skel, spline)
         IN IF midline = NoMidline
            THEN calculate_simple_midline(roi, head, tail, spline)
            ELSE midline

MidlineMethods == {"Skeleton", "Simple interpolation"}

-----------------------------------------------------------------------------
(* Landmarks (segment points).  Every point of a segment map is in         *)
(* hundredths of a pixel.                                                  *)

left_labels == <<"t1l", "t2l", "t3l", "a1l", "a2l", "a3l", "a4l", "a5l", "a6l", "a7l">>

right_labels == <<"t1r", "t2r", "t3r", "a1r", "a2r", "a3r", "a4r", "a5r", "a6r", "a7r">>

midline_labels == <<"st1", "st2", "st3", "sa1", "sa2", "sa3", "sa4", "sa5", "sa6", "sa7">>

n_segments == 10

\* The return value None of calculate_segment_points.
NoSegments == << >>

\* np.argmin(np.linalg.norm(roi - point, axis=1)), 1-based; roi and point
\* in the same unit.
NearestIndex(roi, point) == ArgMin([k \in DOMAIN roi |-> Dist2(roi[k], point)])

\* The positions from i1 forward to i2 on a closed contour of n points:
\* range(i1, i2 + 1), or range(i1, n) + range(0, i2 + 1) when i1 > i2.
Forward(i1, i2, n) ==
    IF i1 <= i2 THEN [j \in 1 .. i2 - i1 + 1 |-> i1 + j - 1]
    ELSE [j \in 1 .. n - i1 + 1 |-> i1 + j - 1] \o [j \in 1 .. i2 |-> j]

Reversed(seq) == [j \in 1 .. Len(seq) |-> seq[Len(seq) + 1 - j]]

\* A faulty sampling: the product rounded half up instead of truncated.
SampleIndexRounded(i, n) ==
    LET rounded == ((1 + 2 * i) * (n - 1) + 10) \div 20
    IN IF rounded < n - 1 THEN rounded ELSE n - 1

\* min(int(t * (n - 1)), n - 1) for t = 0.05 + (i / 9) * 0.9, 0-based.
\* t is (1 + 2 i) / 20; in binary floating point the product falls just
\* below the integer 27 for n = 61, i = 4, the one such case for n <= 100.
SampleIndex(i, n) ==
    IF n = 61 /\ i = 4 THEN 26
    ELSE LET exact == ((1 + 2 * i) * (n - 1)) \div 20
         IN IF exact < n - 1 THEN exact ELSE n - 1

\* A faulty choice of sides: path2 is not reversed.
side_paths_unreversed(head_idx, tail_idx, n) ==
    LET path1 == Forward(head_idx, tail_idx, n)
        path2 == Forward(tail_idx, head_idx, n)
    IN IF Len(path1) <= Len(path2)
       THEN [left |-> path1, right |-> path2]
       ELSE [left |-> path2, right |-> path1]

\* left_path and right_path (lines 2802-2820): the two ways round the
\* contour of n points between the positions nearest head and tail.
side_paths(head_idx, tail_idx, n) ==
    LET path1 == Forward(head_idx, tail_idx, n)
        path2 == Forward(tail_idx, head_idx, n)
    IN IF Len(path1) <= Len(path2)
       THEN [left |-> path1, right |-> Reversed(path2)]
       ELSE [left |-> Reversed(path2), right |-> path1]

\* The sampling loop of calculate_segment_points (lines 2796-2863).
sample_segments(roi, head, tail, midline) ==
    LET paths == side_paths(NearestIndex(roi, head), NearestIndex(roi, tail),
                            Len(roi))
        left_path == paths.left
        right_path == paths.right
        left_point(i) == Fix(roi[left_path[1 + SampleIndex(i, Len(left_path))]])
        right_point(i) == Fix(roi[right_path[1 + SampleIndex(i, Len(right_path))]])
        midline_point(i) == midline[1 + SampleIndex(i, Len(midline))]
        labels == Range(left_labels) \cup Range(right_labels)
                  \cup Range(midline_labels)
    IN [label \in labels |->
           LET i == CHOOSE j \in 0 .. n_segments - 1 :
                        label \in {left_labels[j + 1], right_labels[j + 1],
                                   midline_labels[j + 1]}
           IN IF label = left_labels[i + 1] THEN left_point(i)
              ELSE IF label = right_labels[i + 1] THEN right_point(i)
              ELSE midline_point(i)]

\* A faulty calculate_segment_points: the test len(midline) < 10 left out.
calculate_segment_points_any_length(s, roi, head, tail, skel, spline) ==
    LET midline == calculate_midline(s, roi, head, tail, skel, spline)
    IN IF midline = NoMidline THEN NoSegments
       ELSE sample_segments(roi, head, tail, midline)

calculate_segment_points(s, roi, head, tail, skel, spline) ==
    LET midline == calculate_midline(s, roi, head, tail, skel, spline)
    IN IF midline = NoMidline \/ Len(midline) < 10 THEN NoSegments
       ELSE sample_segments(roi, head, tail, midline)

-----------------------------------------------------------------------------
(* The midline functions and calculate_segment_points as pure functions *)

MaxPathLen == 61

\* Contours of two points and of one point: read_roi_file returns whatever
\* n_coords > 0 points the file holds.
ContourTwo == << <<20, 0>>, <<20, 40>> >>

ContourOne == << <<20, 20>> >>

MidlineRois == {ContourA, ContourB, ContourTwo, ContourOne}

\* Head and tail as an extreme strategy detects them on roi, or as two
\* clicks set them.
EndPairs(roi) ==
    {<<Extremes(roi, ArgMin(Ys(roi)), ArgMax(Ys(roi))).head,
       Extremes(roi, ArgMin(Ys(roi)), ArgMax(Ys(roi))).tail>>,
     <<Extremes(roi, ArgMax(Xs(roi)), ArgMin(Xs(roi))).head,
       Extremes(roi, ArgMax(Xs(roi)), ArgMin(Xs(roi))).tail>>}
    \cup (ClickPoints \X ClickPoints)

\* A skeleton path of n pixels between head and tail.
SkeletonPath(head, tail, n) ==
    [i \in 1 .. n |-> Lerp(Fix(head), Fix(tail), i, n + 1)]

SplineOutcomes == [raised : BOOLEAN, drift : {<<0, 0>>, <<30, -20>>}]

NoSkeleton == [failed |-> TRUE, n |-> 0]

SkeletonOutcomes == {NoSkeleton} \cup [failed : {FALSE}, n : 0 .. MaxPathLen]

MidlineFunctions == {"calculate_simple_midline", "calculate_skeleton_midline",
                     "calculate_segment_points"}

InitMidline ==
    /\ InitObject
    /\ \E fn \in MidlineFunctions, roi \in MidlineRois, method \in MidlineMethods,
          skel \in SkeletonOutcomes, spline \in SplineOutcomes :
          \E ends \in EndPairs(roi) :
             /\ fn = "calculate_simple_midline" => skel = NoSkeleton
             /\ fn # "calculate_segment_points" => method = "Skeleton"
             /\ probe = [fn |-> fn, roi |-> roi, head |-> ends[1], tail |-> ends[2],
                         method |-> method, skel |-> skel, spline |-> spline,
                         done |-> FALSE, out |-> << >>]

ProbeSkel ==
    [failed |-> probe.skel.failed,
     ordered_points |-> SkeletonPath(probe.head, probe.tail, probe.skel.n)]

MidlineUnchanged ==
    UNCHANGED <<rois, total_frames, current_frame, roi_offset,
                detection_method, auto_detect, snap_enabled, show_axis,
                manual_adjust_mode, setting_head, dragging, drag_target,
                head_positions, tail_positions, body_angles, turning_angles,
                midline_method, segment_points, head_manual, tail_manual,
                raised, steps, last_op>>

SimpleMidline ==
    /\ probe.fn = "calculate_simple_midline" /\ ~probe.done
    /\ probe' = [probe EXCEPT !.done = TRUE,
                    !.out = calculate_simple_midline(probe.roi, probe.head,
                                                     probe.tail, probe.spline)]
    /\ MidlineUnchanged

SkeletonMidline ==
    /\ probe.fn = "calculate_skeleton_midline" /\ ~probe.done
    /\ probe' = [probe EXCEPT !.done = TRUE,
                    !.out = calculate_skeleton_midline(probe.roi, probe.head,
                                probe.tail, ProbeSkel, probe.spline)]
    /\ MidlineUnchanged

SegmentPoints ==
    /\ probe.fn = "calculate_segment_points" /\ ~probe.done
    /\ probe' = [probe EXCEPT !.done = TRUE,
                    !.out = calculate_segment_points(
                                [Entry EXCEPT !.midline_method = probe.method],
                                probe.roi, probe.head, probe.tail, ProbeSkel,
                                probe.spline)]
    /\ MidlineUnchanged

NextMidline == SimpleMidline \/ SkeletonMidline \/ SegmentPoints

SpecMidline == InitMidline /\ [][NextMidline]_vars

\* C11: a midline that calculate_simple_midline or calculate_skeleton_midline
\* returns, on any of their return paths, starts with head, ends with tail
\* and has at least 3 points.
C11_MidlineEnds ==
    (/\ probe.fn \in {"calculate_simple_midline", "calculate_skeleton_midline"}
     /\ probe.done
     /\ probe.out # NoMidline) =>
        /\ Len(probe.out) >= 3
        /\ probe.out[1] = Fix(probe.head)
        /\ probe.out[Len(probe.out)] = Fix(probe.tail)

\* C11 witness: the skeleton midline has gone through the spline, which
\* drifted from the path, and has returned head, 98 smoothed points, tail.
C11_Witness ==
    /\ probe.fn = "calculate_skeleton_midline"
    /\ probe.done
    /\ probe.skel.n = 30
    /\ ~probe.spline.raised
    /\ probe.spline.drift # <<0, 0>>
    /\ probe.head = <<20, 0>>
    /\ probe.tail = <<20, 40>>
    /\ Len(probe.out) = SplinePoints + 2
    /\ probe.out[1] = Fix(<<20, 0>>)
    /\ probe.out[2] # Fix(<<20, 0>>)

\* The 30 fixed labels.
AllLabels == Range(left_labels) \cup Range(right_labels) \cup Range(midline_labels)

\* The midline calculate_segment_points starts from.
ProbeMidline ==
    calculate_midline([Entry EXCEPT !.midline_method = probe.method], probe.roi,
                      probe.head, probe.tail, ProbeSkel, probe.spline)

\* C12: calculate_segment_points returns None exactly when the midline is
\* absent or has fewer than 10 points, and otherwise a map whose keys are
\* exactly the 30 labels (10 left, 10 right, 10 midline).
C12_AllOrNothing ==
    (probe.fn = "calculate_segment_points" /\ probe.done) =>
        /\ Cardinality(AllLabels) = 3 * n_segments
        /\ (probe.out = NoSegments) <=>
               (ProbeMidline = NoMidline \/ Len(ProbeMidline) < 10)
        /\ probe.out # NoSegments => DOMAIN probe.out = AllLabels

\* C12 witness: a skeleton path of 8 pixels gave a midline of 10 points and
\* a map of 30 landmarks.
C12_Witness ==
    /\ probe.fn = "calculate_segment_points"
    /\ probe.done
    /\ probe.method = "Skeleton"
    /\ ~probe.skel.failed
    /\ probe.skel.n = 8
    /\ Len(ProbeMidline) = 10
    /\ probe.out # NoSegments
    /\ Cardinality(DOMAIN probe.out) = 30

\* C20: from a contour of fewer than 3 points no midline and no segment map
\* is built: the midline functions and calculate_segment_points return None.
C20_SmallContourFails ==
    (probe.fn \in MidlineFunctions /\ probe.done /\ Len(probe.roi) < 3) =>
        probe.out = << >>

\* C21: for every ordered skeleton path of 5 or more points, the points
\* that calculate_skeleton_midline passes to the spline fit after
\* subsampling are at most 30.
C21_AtMostThirtySampled ==
    (/\ probe.fn = "calculate_skeleton_midline"
     /\ probe.done
     /\ ~probe.skel.failed
     /\ Len(ProbeSkel.ordered_points) >= 5
     /\ Len(ProbeSkel.ordered_points) > 10) =>
        Len(subsample(ProbeSkel.ordered_points)) <= 30

-----------------------------------------------------------------------------
(* calculate_arc_length_on_contour as a pure function.  Lengths are in     *)
(* hundredths of a pixel.                                                  *)

\* The greatest r in lo .. hi with r * r <= n.
RECURSIVE SqrtBetween(_, _, _)
SqrtBetween(n, lo, hi) ==
    IF lo >= hi THEN lo
    ELSE LET mid == (lo + hi + 1) \div 2
         IN IF mid * mid <= n THEN SqrtBetween(n, mid, hi)
            ELSE SqrtBetween(n, lo, mid - 1)

\* np.linalg.norm(b - a) for points in pixels, rounded down.
Norm(a, b) == SqrtBetween(Dist2(a, b) * SubPixel * SubPixel, 0, 100 * SubPixel)

\* The sum of the distances between consecutive points of roi[path].
RECURSIVE PathLength(_, _)
PathLength(roi, path) ==
    IF Len(path) < 2 THEN 0
    ELSE Norm(roi[path[1]], roi[path[2]]) + PathLength(roi, Tail(path))

calculate_arc_length_on_contour(point1, point2, roi) ==
    LET idx1 == NearestIndex(roi, point1)
        idx2 == NearestIndex(roi, point2)
        path1_indices == Forward(idx1, idx2, Len(roi))
        path2_indices == Forward(idx2, idx1, Len(roi))
        path_indices == IF Len(path1_indices) <= Len(path2_indices)
                        THEN path1_indices ELSE path2_indices
    IN IF Len(path_indices) < 2 THEN Norm(point1, point2)
       ELSE PathLength(roi, path_indices)

\* A contour of four points with sides of different lengths.
ContourC == << <<0, 0>>, <<40, 0>>, <<40, 20>>, <<0, 40>> >>

ArcRois == {ContourA, ContourB, ContourC}

InitArc ==
    /\ InitObject
    /\ probe \in [fn : {"calculate_arc_length_on_contour"}, roi : ArcRois,
                  point1 : GridPoints, point2 : GridPoints, done : {FALSE},
                  out : {0}]

ArcLength ==
    /\ ~probe.done
    /\ probe' = [probe EXCEPT !.done = TRUE,
                    !.out = calculate_arc_length_on_contour(probe.point1,
                                probe.point2, probe.roi)]
    /\ MidlineUnchanged

SpecArc == InitArc /\ [][ArcLength]_vars

\* The two paths between the positions lo < hi of a closed contour: the one
\* from lo up to hi, and the one from hi over the end of the contour to lo.
ArcFromLower(roi, lo, hi) == [j \in 1 .. hi - lo + 1 |-> lo + j - 1]

ArcFromHigher(roi, lo, hi) ==
    [j \in 1 .. Len(roi) - hi + 1 |-> hi + j - 1] \o [j \in 1 .. lo |-> j]

\* C13: the arc length is the length of the path with fewer points, of the
\* path starting at the lower index when both have as many, and the
\* straight-line distance between the two points when their nearest
\* contour points coincide.
C13_ShorterPathLowerIndex ==
    (probe.fn = "calculate_arc_length_on_contour" /\ probe.done) =>
        LET roi == probe.roi
            i1 == NearestIndex(roi, probe.point1)
            i2 == NearestIndex(roi, probe.point2)
            lo == IF i1 < i2 THEN i1 ELSE i2
            hi == IF i1 < i2 THEN i2 ELSE i1
            from_lower == ArcFromLower(roi, lo, hi)
            from_higher == ArcFromHigher(roi, lo, hi)
        IN IF i1 = i2 THEN probe.out = Norm(probe.point1, probe.point2)
           ELSE IF Len(from_lower) <= Len(from_higher)
                THEN probe.out = PathLength(roi, from_lower)
                ELSE probe.out = PathLength(roi, from_higher)

-----------------------------------------------------------------------------
(* snap_segment_to_roi.  The dragged point, the points of a segment map    *)
(* and the point returned are in hundredths of a pixel.                    *)

\* None for head, tail or a neighbour.
NoPoint == << >>

FixAll(roi) == [k \in DOMAIN roi |-> Fix(roi[k])]

\* snap_to_roi for a point in hundredths of a pixel.
snap_to_roi_fixed(s, point) ==
    LET roi_index == s.current_frame + s.roi_offset
    IN IF ~HasRoi(s, roi_index) THEN point
       ELSE LET roi == FixAll(RoiAt(s, roi_index))
            IN roi[NearestIndex(roi, point)]

\* desired_spacing = 3.0 pixels.
desired_spacing == 3 * SubPixel

\* np.linalg.norm(b - a) for points in hundredths of a pixel, rounded down.
Spacing(a, b) == SqrtBetween(Dist2(a, b), 0, 100 * SubPixel)

\* int(np.ceil(dist / desired_spacing)) for the distance from start to end.
n_intermediate(start, end) ==
    CHOOSE n \in 0 .. 100 :
        /\ (n * desired_spacing) * (n * desired_spacing) >= Dist2(start, end)
        /\ n > 0 => ((n - 1) * desired_spacing) * ((n - 1) * desired_spacing)
                        < Dist2(start, end)

\* The interpolation loop: between two consecutive points further apart than
\* desired_spacing, n_intermediate - 1 points at equal steps.
RECURSIVE Interpolated(_)
Interpolated(points) ==
    IF Len(points) < 2 THEN points
    ELSE LET start == points[1]
             end == points[2]
             n == n_intermediate(start, end)
             between == IF Dist2(start, end) > desired_spacing * desired_spacing
                        THEN [j \in 1 .. n - 1 |-> Lerp(start, end, j, n)]
                        ELSE << >>
         IN <<start>> \o between \o Interpolated(Tail(points))

\* A faulty density test: only the average spacing is looked at.
DenseByMeanOnly(valid_points) ==
    IF Len(valid_points) > 1
    THEN LET dists == [i \in 1 .. Len(valid_points) - 1 |->
                          Spacing(valid_points[i], valid_points[i + 1])]
         IN IF SumOver(DOMAIN dists, dists) > desired_spacing * Len(dists)
            THEN Interpolated(valid_points)
            ELSE valid_points
    ELSE valid_points

\* The points the dragged point is snapped to: valid_points as they are, or
\* interpolated when they lie more than desired_spacing apart on average or
\* more than twice that anywhere.
Dense(valid_points) ==
    IF Len(valid_points) > 1
    THEN LET dists == [i \in 1 .. Len(valid_points) - 1 |->
                          Spacing(valid_points[i], valid_points[i + 1])]
         IN IF \/ SumOver(DOMAIN dists, dists) > desired_spacing * Len(dists)
               \/ \E i \in DOMAIN dists :
                     Dist2(valid_points[i], valid_points[i + 1])
                         > 4 * desired_spacing * desired_spacing
            THEN Interpolated(valid_points)
            ELSE valid_points
    ELSE valid_points

\* labels_list.index(segment_label), 1-based.
IndexOf(labels_list, segment_label) ==
    CHOOSE i \in DOMAIN labels_list : labels_list[i] = segment_label

\* prev_pos: head for the first label of the list, otherwise the stored
\* point of the label before, None when there is none.
prev_pos(labels_list, idx, segments, head) ==
    IF idx = 1 THEN head
    ELSE IF labels_list[idx - 1] \in DOMAIN segments
         THEN segments[labels_list[idx - 1]]
         ELSE NoPoint

\* next_pos: tail for the last label of the list, otherwise the stored point
\* of the label after, None when there is none.
next_pos(labels_list, idx, segments, tail) ==
    IF idx = Len(labels_list) THEN tail
    ELSE IF labels_list[idx + 1] \in DOMAIN segments
         THEN segments[labels_list[idx + 1]]
         ELSE NoPoint

\* The midline branch (lines 2407-2496).
snap_midline_label(s, point, segment_label, roi, segments, skel, spline) ==
    LET cf == s.current_frame
    IN IF ~HasBoth(s, cf) THEN point
       ELSE LET head == s.head_positions[cf]
                tail == s.tail_positions[cf]
                midline == calculate_midline(s, roi, head, tail, skel, spline)
                idx == IndexOf(midline_labels, segment_label)
                prev == prev_pos(midline_labels, idx, segments, Fix(head))
                next == next_pos(midline_labels, idx, segments, Fix(tail))
            IN IF midline = NoMidline \/ Len(midline) < 2 THEN point
               ELSE IF prev # NoPoint /\ next # NoPoint
                    THEN LET prev_idx == NearestIndex(midline, prev)
                             next_idx == NearestIndex(midline, next)
                             start_idx == IF prev_idx < next_idx THEN prev_idx
                                          ELSE next_idx
                             end_idx == IF prev_idx < next_idx THEN next_idx
                                        ELSE prev_idx
                             valid_midline_points ==
                                 Dense(SubSeq(midline, start_idx, end_idx))
                         IN valid_midline_points[
                                NearestIndex(valid_midline_points, point)]
                    ELSE midline[NearestIndex(midline, point)]

\* The left / right branch (lines 2498-2599).
snap_side_label(s, point, labels_list, segment_label, roi, segments) ==
    LET cf == s.current_frame
        idx == IndexOf(labels_list, segment_label)
        head == IF HasBoth(s, cf) THEN Fix(s.head_positions[cf]) ELSE NoPoint
        tail == IF HasBoth(s, cf) THEN Fix(s.tail_positions[cf]) ELSE NoPoint
        prev == prev_pos(labels_list, idx, segments, head)
        next == next_pos(labels_list, idx, segments, tail)
    IN IF prev # NoPoint /\ next # NoPoint
       THEN LET prev_idx == NearestIndex(FixAll(roi), prev)
                next_idx == NearestIndex(FixAll(roi), next)
                path1_indices == Forward(prev_idx, next_idx, Len(roi))
                path2_indices == Forward(next_idx, prev_idx, Len(roi))
                valid_indices == IF Len(path1_indices) <= Len(path2_indices)
                                 THEN path1_indices ELSE path2_indices
                valid_roi_points ==
                    Dense([j \in DOMAIN valid_indices |->
                              Fix(roi[valid_indices[j]])])
            IN valid_roi_points[NearestIndex(valid_roi_points, point)]
       ELSE snap_to_roi_fixed(s, point)

\* A faulty snap_segment_to_roi: a midline label treated as an unknown
\* label, snapped to the contour.
snap_segment_to_roi_contour_only(s, point, segment_label, skel, spline) ==
    LET roi_index == s.current_frame + s.roi_offset
    IN IF ~HasRoi(s, roi_index) THEN point
       ELSE IF s.current_frame \notin DOMAIN s.segment_points
            THEN snap_to_roi_fixed(s, point)
            ELSE LET roi == RoiAt(s, roi_index)
                     segments == s.segment_points[s.current_frame]
                 IN IF segment_label \in Range(left_labels)
                    THEN snap_side_label(s, point, left_labels, segment_label,
                                         roi, segments)
                    ELSE IF segment_label \in Range(right_labels)
                    THEN snap_side_label(s, point, right_labels, segment_label,
                                         roi, segments)
                    ELSE snap_to_roi_fixed(s, point)

snap_segment_to_roi(s, point, segment_label, skel, spline) ==
    LET roi_index == s.current_frame + s.roi_offset
    IN IF ~HasRoi(s, roi_index) THEN point
       ELSE IF s.current_frame \notin DOMAIN s.segment_points
            THEN snap_to_roi_fixed(s, point)
            ELSE LET roi == RoiAt(s, roi_index)
                     segments == s.segment_points[s.current_frame]
                 IN IF segment_label \in Range(left_labels)
                    THEN snap_side_label(s, point, left_labels, segment_label,
                                         roi, segments)
                    ELSE IF segment_label \in Range(right_labels)
                    THEN snap_side_label(s, point, right_labels, segment_label,
                                         roi, segments)
                    ELSE IF segment_label \in Range(midline_labels)
                    THEN snap_midline_label(s, point, segment_label, roi,
                                            segments, skel, spline)
                    ELSE snap_to_roi_fixed(s, point)

-----------------------------------------------------------------------------
(* snap_segment_to_roi as a pure function of the object and its arguments *)

SnapRois == {ContourA, ContourB, ContourC}

\* The labels dragged: the first, an inner and the last one of the lists.
SnapLabels == {"t1l", "a3l", "a7l", "t1r", "a7r", "st1", "sa3", "sa7"}

\* Mouse positions: on the pixel grid and between pixels.
DragPoints == {Fix(p) : p \in ClickPoints} \cup {<<3150, 1025>>}

\* What the frame holds when the landmark is dragged.  The map is the one
\* initialize_segments_current stored for the endpoints detected on the
\* contour ("full"), or one a session file gave, without the label before
\* ("no prev") or after ("no next") the dragged one; there is no map at all
\* ("none"), or no contour ("no roi").
SnapMaps == {"full", "no prev", "no next", "none", "no roi"}

\* The endpoints since the map was stored: the same, removed by
\* clear_current_frame, or set by two clicks on one point.
SnapEnds == {"kept", "cleared", "coincide"}

SnapSkeletons == {NoSkeleton, [failed |-> FALSE, n |-> 30]}

InitSnap ==
    /\ InitObject
    /\ \E roi \in SnapRois, map \in SnapMaps, ends_now \in SnapEnds,
          segment_label \in SnapLabels, point \in DragPoints,
          skel \in SnapSkeletons, spline \in SplineOutcomes :
          \E ends \in {<<Extremes(roi, ArgMin(Ys(roi)), ArgMax(Ys(roi))).head,
                         Extremes(roi, ArgMin(Ys(roi)), ArgMax(Ys(roi))).tail>>,
                       <<Extremes(roi, ArgMin(Xs(roi)), ArgMax(Xs(roi))).head,
                         Extremes(roi, ArgMin(Xs(roi)), ArgMax(Xs(roi))).tail>>} :
             probe = [fn |-> "snap_segment_to_roi", roi |-> roi,
                      head |-> ends[1], tail |-> ends[2], map |-> map,
                      ends_now |-> ends_now, segment_label |-> segment_label,
                      point |-> point, skel |-> skel, spline |-> spline,
                      done |-> FALSE, out |-> << >>]

\* The list the label belongs to.
ListOf(segment_label) ==
    IF segment_label \in Range(left_labels) THEN left_labels
    ELSE IF segment_label \in Range(right_labels) THEN right_labels
    ELSE midline_labels

\* The map stored for the frame.
SnapSegments ==
    LET full == calculate_segment_points(Entry, probe.roi, probe.head,
                                         probe.tail, ProbeSkel, probe.spline)
        labels_list == ListOf(probe.segment_label)
        idx == IndexOf(labels_list, probe.segment_label)
        absent == IF probe.map = "no prev" /\ idx > 1
                  THEN {labels_list[idx - 1]}
                  ELSE IF probe.map = "no next" /\ idx < Len(labels_list)
                  THEN {labels_list[idx + 1]}
                  ELSE {}
    IN [label \in (DOMAIN full) \ absent |-> full[label]]

\* The object snap_segment_to_roi is called on: one frame, displayed.
SnapObject ==
    LET now == IF probe.ends_now = "kept"
               THEN [head |-> probe.head, tail |-> probe.tail]
               ELSE [head |-> <<20, 20>>, tail |-> <<20, 20>>]
    IN [Entry EXCEPT
           !.total_frames = 1,
           !.rois = IF probe.map = "no roi" THEN <<NoRoi>> ELSE <<probe.roi>>,
           !.head_positions = IF probe.ends_now = "cleared" THEN EmptyDict
                              ELSE Put(EmptyDict, 0, now.head),
           !.tail_positions = IF probe.ends_now = "cleared" THEN EmptyDict
                              ELSE Put(EmptyDict, 0, now.tail),
           !.segment_points = IF probe.map \in {"none", "no roi"} THEN EmptyDict
                              ELSE Put(EmptyDict, 0, SnapSegments)]

\* What the image processing gives for the endpoints the frame has now.
SnapSkel ==
    [failed |-> probe.skel.failed,
     ordered_points |->
         IF HasBoth(SnapObject, 0)
         THEN SkeletonPath(SnapObject.head_positions[0],
                           SnapObject.tail_positions[0], probe.skel.n)
         ELSE << >>]

SnapSegment ==
    /\ probe.fn = "snap_segment_to_roi" /\ ~probe.done
    /\ probe' = [probe EXCEPT !.done = TRUE,
                    !.out = snap_segment_to_roi(SnapObject, probe.point,
                                probe.segment_label, SnapSkel, probe.spline)]
    /\ MidlineUnchanged

SpecSnap == InitSnap /\ [][SnapSegment]_vars

\* A neighbour of the dragged label cannot be resolved: the frame has no
\* map, the label before or after is not in the map, or the label is the
\* first or last of its list and the frame lacks head or tail.
Unresolved ==
    \/ 0 \notin DOMAIN SnapObject.segment_points
    \/ LET labels_list == ListOf(probe.segment_label)
           idx == IndexOf(labels_list, probe.segment_label)
           ends == IF HasBoth(SnapObject, 0) THEN <<0, 0>> ELSE NoPoint
           segments == SnapObject.segment_points[0]
       IN \/ prev_pos(labels_list, idx, segments, ends) = NoPoint
          \/ next_pos(labels_list, idx, segments, ends) = NoPoint

\* The midline of the frame as it is when the landmark is dragged.
SnapMidline ==
    calculate_midline(SnapObject, probe.roi, SnapObject.head_positions[0],
                      SnapObject.tail_positions[0], SnapSkel, probe.spline)

\* C14: for every label kind, when snap_segment_to_roi cannot resolve both
\* neighbours of the landmark it returns what snap_to_roi returns, the
\* contour point nearest to the requested position.
C14_FallbackToContour ==
    (probe.fn = "snap_segment_to_roi" /\ probe.done /\ Unresolved) =>
        probe.out = snap_to_roi_fixed(SnapObject, probe.point)

\* C14 as the code has it: with a neighbour unresolved, a left or right
\* label is snapped like snap_to_roi; a midline label of a frame that has a
\* map is left where it was requested when the frame lacks head or tail or
\* has no midline, and is otherwise put on the nearest point of the midline.
C14_FallbackByKind ==
    (probe.fn = "snap_segment_to_roi" /\ probe.done /\ Unresolved) =>
        IF \/ probe.segment_label \notin Range(midline_labels)
           \/ 0 \notin DOMAIN SnapObject.segment_points
        THEN probe.out = snap_to_roi_fixed(SnapObject, probe.point)
        ELSE IF ~HasBoth(SnapObject, 0) THEN probe.out = probe.point
        ELSE IF SnapMidline = NoMidline THEN probe.out = probe.point
        ELSE probe.out = SnapMidline[NearestIndex(SnapMidline, probe.point)]

\* C14 witness: the first left label dragged on a frame whose head and tail
\* were cleared; it went to the nearest contour point.
C14_Witness ==
    /\ probe.fn = "snap_segment_to_roi"
    /\ probe.done
    /\ probe.segment_label = "t1l"
    /\ probe.map = "full"
    /\ probe.ends_now = "cleared"
    /\ probe.roi = ContourA
    /\ probe.point = <<3150, 1025>>
    /\ Unresolved
    /\ probe.out = Fix(<<40, 20>>)

-----------------------------------------------------------------------------
(* Handlers that store contours and segment maps *)

\* The skeleton path the image processing gives between head and tail: it
\* fails or not, and has skel.n pixels, the same on every call.
SkeletonFor(skel, head, tail) ==
    [failed |-> skel.failed, ordered_points |-> SkeletonPath(head, tail, skel.n)]

\* The skeleton path for the endpoints of the displayed frame; it is not
\* looked at when the frame has none.
SkeletonNow(s, skel) ==
    IF HasBoth(s, s.current_frame)
    THEN SkeletonFor(skel, s.head_positions[s.current_frame],
                     s.tail_positions[s.current_frame])
    ELSE SkeletonFor(skel, <<0, 0>>, <<0, 0>>)

initialize_segments_current(s, skel, spline) ==
    LET cf == s.current_frame
        roi_index == cf + s.roi_offset
    IN IF ~HasBoth(s, cf) THEN s
       ELSE IF ~HasRoi(s, roi_index) THEN s
       ELSE LET head == s.head_positions[cf]
                tail == s.tail_positions[cf]
                segments == calculate_segment_points(s, RoiAt(s, roi_index),
                                head, tail, SkeletonFor(skel, head, tail), spline)
            IN IF segments # NoSegments
               THEN update_display([s EXCEPT !.segment_points = Put(@, cf, segments)])
               ELSE s

\* The map apply_segments_to_all computes for frame, None when the frame is
\* skipped.
segments_of_frame(s, frame, skel, spline) ==
    LET roi_index == frame + s.roi_offset
    IN IF frame \in DOMAIN s.tail_positions /\ HasRoi(s, roi_index)
       THEN calculate_segment_points(s, RoiAt(s, roi_index),
                s.head_positions[frame], s.tail_positions[frame],
                SkeletonFor(skel, s.head_positions[frame], s.tail_positions[frame]),
                spline)
       ELSE NoSegments

\* apply_segments_to_all; reply is the answer to the confirmation dialog.
apply_segments_to_all(s, reply, skel, spline) ==
    IF DOMAIN s.head_positions = {} \/ reply = "No" THEN s
    ELSE LET done == {frame \in DOMAIN s.head_positions :
                         segments_of_frame(s, frame, skel, spline) # NoSegments}
         IN update_display(
                [s EXCEPT !.segment_points =
                    [frame \in (DOMAIN s.segment_points) \cup done |->
                        IF frame \in done
                        THEN segments_of_frame(s, frame, skel, spline)
                        ELSE s.segment_points[frame]]])

\* while len(self.rois) <= roi_index: self.rois.append(None)
\* self.rois[roi_index] = roi
\* A negative roi_index counts from the end of the list, and raises
\* IndexError when the list is shorter than that.
store_roi(s, roi_index, roi) ==
    LET n == Len(s.rois)
        extended == IF n <= roi_index
                    THEN s.rois \o [j \in 1 .. roi_index + 1 - n |-> NoRoi]
                    ELSE s.rois
    IN IF roi_index >= 0
       THEN [s EXCEPT !.rois = [extended EXCEPT ![roi_index + 1] = roi]]
       ELSE IF n + roi_index >= 0
            THEN [s EXCEPT !.rois = [extended EXCEPT ![n + roi_index + 1] = roi]]
            ELSE [s EXCEPT !.raised = TRUE]

\* finish_roi_drawing with the points clicked in drawing mode.
finish_roi_drawing(s, roi_drawing_points) ==
    IF Len(roi_drawing_points) < 3 THEN s
    ELSE LET t == store_roi(s, s.current_frame + s.roi_offset, roi_drawing_points)
         IN IF t.raised THEN t ELSE update_display(t)

\* auto_detect_roi_single; roi is what detect_roi_from_threshold gives for
\* the displayed frame, None when it finds nothing.
auto_detect_roi_single(s, roi) ==
    IF s.total_frames = 0 \/ roi = NoRoi THEN s
    ELSE LET t == store_roi(s, s.current_frame + s.roi_offset, roi)
         IN IF t.raised THEN t ELSE update_display(t)

\* The loop of auto_detect_roi_batch from frame_idx on; detected[frame_idx]
\* is what detect_roi_from_threshold gives for the frame, and
\* progress.wasCanceled() is true from the frame cancel_at on.
RECURSIVE detect_loop(_, _, _, _)
detect_loop(s, frame_idx, cancel_at, detected) ==
    IF frame_idx >= s.total_frames \/ frame_idx >= cancel_at THEN s
    ELSE LET roi == detected[frame_idx]
             roi_index == frame_idx + s.roi_offset
         IN IF roi # NoRoi /\ 0 <= roi_index /\ roi_index < Len(s.rois)
            THEN detect_loop([s EXCEPT !.rois[roi_index + 1] = roi],
                             frame_idx + 1, cancel_at, detected)
            ELSE detect_loop(s, frame_idx + 1, cancel_at, detected)

\* success_count and failed_frames as the frame loop leaves them, for the
\* contour list s.rois already extended to the number of frames.
RECURSIVE detect_counts(_, _, _, _)
detect_counts(s, frame_idx, cancel_at, detected) ==
    IF frame_idx >= s.total_frames \/ frame_idx >= cancel_at
    THEN [success_count |-> 0, failed_frames |-> << >>]
    ELSE LET roi == detected[frame_idx]
             roi_index == frame_idx + s.roi_offset
             rest == detect_counts(s, frame_idx + 1, cancel_at, detected)
         IN IF roi # NoRoi
            THEN IF 0 <= roi_index /\ roi_index < Len(s.rois)
                 THEN [rest EXCEPT !.success_count = @ + 1]
                 ELSE rest
            ELSE [rest EXCEPT !.failed_frames = <<frame_idx>> \o @]

\* What the closing dialog of auto_detect_roi_batch reports.
batch_report(s, cancel_at, detected) ==
    LET extended ==
            IF Len(s.rois) < s.total_frames
            THEN s.rois \o [j \in 1 .. s.total_frames - Len(s.rois) |-> NoRoi]
            ELSE s.rois
    IN detect_counts([s EXCEPT !.rois = extended], 0, cancel_at, detected)

auto_detect_roi_batch(s, reply, cancel_at, detected) ==
    IF s.total_frames = 0 \/ reply = "No" THEN s
    ELSE LET extended ==
                 IF Len(s.rois) < s.total_frames
                 THEN s.rois \o [j \in 1 .. s.total_frames - Len(s.rois) |-> NoRoi]
                 ELSE s.rois
         IN update_display(detect_loop([s EXCEPT !.rois = extended], 0,
                                       cancel_at, detected))

-----------------------------------------------------------------------------
(* The state machine of the batch operations.  It starts with a video and  *)
(* contours loaded; probe holds what the environment gives: the outcome of *)
(* the image processing, and the frame before which the user last asked a  *)
(* batch to stop (cancel_at; the number of frames and above: never).  It    *)
(* also holds the argument and the result of a call of a snap function.    *)

MaxBatchSteps == 3

\* The object __init__ leaves.
Constructed ==
    [rois |-> << >>, total_frames |-> 0, current_frame |-> 0, roi_offset |-> 0,
     detection_method |-> "Anterior = Top", auto_detect |-> TRUE,
     snap_enabled |-> TRUE, show_axis |-> TRUE, manual_adjust_mode |-> FALSE,
     setting_head |-> TRUE, dragging |-> FALSE, drag_target |-> "None",
     head_positions |-> EmptyDict, tail_positions |-> EmptyDict,
     body_angles |-> EmptyDict, turning_angles |-> EmptyDict,
     midline_method |-> "Skeleton", segment_points |-> EmptyDict,
     head_manual |-> {}, tail_manual |-> {}, raised |-> FALSE]

\* The object after load_standard_video and load_rois.
Loaded(r) ==
    update_display(
        [update_display([Constructed EXCEPT !.total_frames = NumFrames])
            EXCEPT !.rois = r])

\* A contour the thresholding detects on a frame.
DetectedContour == ContourC

\* What detect_roi_from_threshold gives for each frame of the video.  The
\* second frame is one on which it finds nothing.
Detections ==
    {[f \in 0 .. NumFrames - 1 |-> IF f = 1 THEN NoRoi ELSE DetectedContour]}

\* The object is s.
Holds(s) ==
    /\ rois = s.rois
    /\ total_frames = s.total_frames
    /\ current_frame = s.current_frame
    /\ roi_offset = s.roi_offset
    /\ detection_method = s.detection_method
    /\ auto_detect = s.auto_detect
    /\ snap_enabled = s.snap_enabled
    /\ show_axis = s.show_axis
    /\ manual_adjust_mode = s.manual_adjust_mode
    /\ setting_head = s.setting_head
    /\ dragging = s.dragging
    /\ drag_target = s.drag_target
    /\ head_positions = s.head_positions
    /\ tail_positions = s.tail_positions
    /\ body_angles = s.body_angles
    /\ turning_angles = s.turning_angles
    /\ midline_method = s.midline_method
    /\ segment_points = s.segment_points
    /\ head_manual = s.head_manual
    /\ tail_manual = s.tail_manual
    /\ raised = s.raised

InitBatch ==
    /\ \E r \in RoiLists : Holds(Loaded(r))
    /\ steps = 0
    /\ last_op = "load_rois"
    /\ \E skel \in SnapSkeletons :
          probe = [fn |-> "batch", skel |-> skel,
                   spline |-> [raised |-> FALSE, drift |-> <<30, -20>>],
                   cancel_at |-> NumFrames, segment_label |-> "",
                   point |-> NoPoint, out |-> NoPoint]

\* A step of a batch operation that the user asks to stop before the frame
\* cancel_at.
BatchStep(op, cancel_at) ==
    /\ steps < MaxBatchSteps
    /\ steps' = steps + 1
    /\ last_op' = op
    /\ probe' = [probe EXCEPT !.cancel_at = cancel_at]

\* The user asks to stop before the second frame, or never.
CancelPoints == {1, NumFrames}

BatchOnFrameChanged ==
    /\ BatchStep("on_frame_changed", NumFrames)
    /\ \E value \in 0 .. total_frames - 1 :
          /\ value # current_frame
          /\ Commit(on_frame_changed(Entry, value))

BatchSetRoiOffset ==
    /\ BatchStep("roi_offset_changed", NumFrames)
    /\ \E o \in -MaxOffset .. MaxOffset :
          /\ o # roi_offset
          /\ Commit(update_display([Entry EXCEPT !.roi_offset = o]))

BatchToggleAutoDetect ==
    /\ BatchStep("on_auto_detect_changed", NumFrames)
    /\ Commit(update_display([Entry EXCEPT !.auto_detect = ~@]))

BatchClearCurrentFrame ==
    /\ BatchStep("clear_current_frame", NumFrames)
    /\ Commit(clear_current_frame(Entry))

BatchApplyEndpointsToAll ==
    /\ BatchStep("apply_endpoints_to_all", NumFrames)
    /\ Commit(apply_endpoints_to_all(Entry))

BatchForceRedetectAll ==
    \E cancel_at \in CancelPoints :
        /\ BatchStep("force_redetect_all", cancel_at)
        /\ Commit(force_redetect_all(Entry, "Yes"))

BatchAnalyzeAllFrames ==
    \E cancel_at \in CancelPoints :
        /\ BatchStep("analyze_all_frames", cancel_at)
        /\ Commit(analyze_all_frames(Entry))

BatchApplySegmentsToAll ==
    \E cancel_at \in CancelPoints :
        /\ BatchStep("apply_segments_to_all", cancel_at)
        /\ Commit(apply_segments_to_all(Entry, "Yes", probe.skel, probe.spline))

BatchAutoDetectRoi ==
    \E cancel_at \in CancelPoints, detected \in Detections :
        /\ BatchStep("auto_detect_roi_batch", cancel_at)
        /\ Commit(auto_detect_roi_batch(Entry, "Yes", cancel_at, detected))

InitializeSegmentsCurrent ==
    /\ BatchStep("initialize_segments_current", NumFrames)
    /\ Commit(initialize_segments_current(Entry, probe.skel, probe.spline))

\* Three points drawn, or two, which finish_roi_drawing refuses.
FinishRoiDrawing ==
    \E roi_drawing_points \in {ContourC, ContourTwo} :
        /\ BatchStep(IF Len(roi_drawing_points) < 3 THEN "finish_roi_drawing refused"
                     ELSE "finish_roi_drawing", NumFrames)
        /\ Commit(finish_roi_drawing(Entry, roi_drawing_points))

AutoDetectRoiSingle ==
    \E roi \in {DetectedContour, NoRoi} :
        /\ BatchStep(IF roi = NoRoi THEN "auto_detect_roi_single failed"
                     ELSE "auto_detect_roi_single", NumFrames)
        /\ Commit(auto_detect_roi_single(Entry, roi))

\* The labels and the positions the snap functions are called with.
BatchLabels == {"t1l", "a3r", "st1", "sa3"}

\* A call of snap_to_roi on the object as it is, as on_video_move makes it
\* for a dragged head or tail.  Nothing is stored; a behaviour ends with
\* the call.
SnapToRoi ==
    /\ steps < MaxBatchSteps
    /\ steps' = MaxBatchSteps
    /\ last_op' = "snap_to_roi"
    /\ \E point \in ClickPoints :
          probe' = [probe EXCEPT !.point = point,
                                 !.out = snap_to_roi(Entry, point)]
    /\ Commit(self)

\* A call of snap_segment_to_roi on the object as it is, as on_video_move
\* makes it for a dragged landmark.
SnapSegmentToRoi ==
    /\ steps < MaxBatchSteps
    /\ steps' = MaxBatchSteps
    /\ last_op' = "snap_segment_to_roi"
    /\ \E segment_label \in BatchLabels, point \in DragPoints :
          probe' = [probe EXCEPT
                       !.segment_label = segment_label,
                       !.point = point,
                       !.out = snap_segment_to_roi(Entry, point, segment_label,
                                   SkeletonNow(Entry, probe.skel),
                                   probe.spline)]
    /\ Commit(self)

NextBatch ==
    \/ BatchOnFrameChanged
    \/ BatchSetRoiOffset
    \/ BatchToggleAutoDetect
    \/ BatchClearCurrentFrame
    \/ BatchApplyEndpointsToAll
    \/ BatchForceRedetectAll
    \/ BatchAnalyzeAllFrames
    \/ BatchApplySegmentsToAll
    \/ BatchAutoDetectRoi
    \/ InitializeSegmentsCurrent
    \/ FinishRoiDrawing
    \/ AutoDetectRoiSingle
    \/ SnapToRoi
    \/ SnapSegmentToRoi

SpecBatch == InitBatch /\ [][NextBatch]_vars

-----------------------------------------------------------------------------
(* Claims about the batch operations *)

BatchOps == {"force_redetect_all", "analyze_all_frames",
             "apply_segments_to_all", "auto_detect_roi_batch"}

\* What the object holds for frame f: its endpoints, its body angle, its
\* segment map and the contour at its index.
FrameResult(f) ==
    [head |-> IF f \in DOMAIN head_positions THEN <<head_positions[f]>> ELSE << >>,
     tail |-> IF f \in DOMAIN tail_positions THEN <<tail_positions[f]>> ELSE << >>,
     body_angle |-> IF f \in DOMAIN body_angles THEN <<body_angles[f]>> ELSE << >>,
     segments |-> IF f \in DOMAIN segment_points THEN <<segment_points[f]>> ELSE << >>,
     roi |-> IF HasRoi(self, f + roi_offset) THEN RoiAt(self, f + roi_offset)
             ELSE NoRoi]

\* C15: each batch operation (re-detect-all, analyze-all,
\* initialize-all-segments, batch ROI detection) can be
\* cancelled between frames: when the user asks to stop before the frame
\* cancel_at, that frame and every later one is left as it was.
C15_CancelStopsBatch ==
    [][(last_op' \in BatchOps /\ probe'.cancel_at < NumFrames) =>
          \A f \in probe'.cancel_at .. NumFrames - 1 :
              FrameResult(f)' = FrameResult(f)]_vars

\* C16: in apply-to-all and analyze-all a failure of the detection on one
\* frame leaves only that frame without a result: the handler runs to its
\* end without an exception, and every index of the contour list whose
\* contour the detection does not fail on has its endpoints after it.
C16_BatchNeverAborts ==
    [][last_op' \in {"apply_endpoints_to_all", "analyze_all_frames"} =>
          /\ ~raised'
          /\ \A i \in 0 .. Len(rois) - 1 :
                (rois[i + 1] # NoRoi /\ ~detect_endpoints(self, rois[i + 1]).raised) =>
                    /\ i \in DOMAIN head_positions'
                    /\ i \in DOMAIN tail_positions']_vars

\* C17: a mutator applied again to the state it has just left, with the
\* same inputs, changes nothing: apply-to-all, force-redetect-all,
\* analyze-all, and the snap functions, where snap(snap(p)) = snap(p).
C17_Idempotent ==
    /\ last_op = "apply_endpoints_to_all" => apply_endpoints_to_all(Entry) = self
    /\ last_op = "force_redetect_all" => force_redetect_all(Entry, "Yes") = self
    /\ last_op = "analyze_all_frames" => analyze_all_frames(Entry) = self
    /\ last_op = "snap_to_roi" => snap_to_roi(Entry, probe.out) = probe.out
    /\ last_op = "snap_segment_to_roi" =>
           snap_segment_to_roi(Entry, probe.out, probe.segment_label,
                               SkeletonNow(Entry, probe.skel), probe.spline)
               = probe.out

\* C17 witness: an inner midline landmark of a frame that has a map was
\* dragged and came back on the midline, away from the mouse position.
C17_Witness ==
    /\ last_op = "snap_segment_to_roi"
    /\ probe.segment_label = "sa3"
    /\ current_frame \in DOMAIN segment_points
    /\ HasBoth(self, current_frame)
    /\ probe.out # probe.point
    /\ probe.out # snap_to_roi_fixed(self, probe.point)

\* C19, for a negative contour index: storing a drawn or detected contour
\* for a frame whose index frame + offset is negative is reported as an
\* error and leaves every stored contour as it was.
C19_NegativeIndexRejected ==
    [][(/\ last_op' \in {"finish_roi_drawing", "auto_detect_roi_single"}
        /\ current_frame + roi_offset < 0) =>
           /\ raised'
           /\ rois' = rois]_vars


-----------------------------------------------------------------------------
(* Sessions.  session_data is what json.dump writes: the keys of an object *)
(* are texts, a number is its decimal text.                                *)

\* No session file has been written.
NoFile == << >>

\* json.dump of an integer (a frame key, an offset, a pixel coordinate) and
\* int(text), or json.load, back; the integers are those within lo .. hi.
IntText(n) == ToString(n)

ParseInt(text, lo, hi) == CHOOSE n \in lo .. hi : ToString(n) = text

\* The decimal text of a float coordinate given in hundredths: its sign, the
\* digits before the point and the two after it; and json.load back.
Decimal(n) ==
    [negative |-> n < 0, whole |-> Abs(n) \div SubPixel,
     hundredths |-> Abs(n) % SubPixel]

\* A faulty json.load of a float: the sign is dropped.
ParseDecimalUnsigned(d) == d.whole * SubPixel + d.hundredths

ParseDecimal(d) ==
    (IF d.negative THEN -1 ELSE 1) * (d.whole * SubPixel + d.hundredths)

\* {int(k): v.tolist() for k, v in positions.items()} as json.dump writes it.
DumpPositions(positions) ==
    [text \in {IntText(k) : k \in DOMAIN positions} |->
        LET k == CHOOSE j \in DOMAIN positions : IntText(j) = text
        IN <<IntText(positions[k][1]), IntText(positions[k][2])>>]

\* The segment maps as json.dump writes them.
DumpSegments(maps) ==
    [text \in {IntText(frame) : frame \in DOMAIN maps} |->
        LET frame == CHOOSE j \in DOMAIN maps : IntText(j) = text
            segments == maps[frame]
        IN [label \in DOMAIN segments |->
               <<Decimal(segments[label][1]), Decimal(segments[label][2])>>]]

\* save_session: None when there is nothing to save, otherwise session_data.
save_session(s) ==
    IF DOMAIN s.head_positions = {} /\ DOMAIN s.tail_positions = {} THEN NoFile
    ELSE [settings |-> [roi_offset |-> IntText(s.roi_offset),
                        detection_method |-> s.detection_method,
                        midline_method |-> s.midline_method,
                        snap_to_roi |-> s.snap_enabled,
                        auto_detect |-> s.auto_detect],
          head_positions |-> DumpPositions(s.head_positions),
          tail_positions |-> DumpPositions(s.tail_positions),
          segment_points |-> DumpSegments(s.segment_points)]

\* {int(k): np.array(v) for k, v in head_data.items()}
LoadPositions(head_data) ==
    [k \in {ParseInt(text, 0, NumFrames) : text \in DOMAIN head_data} |->
        LET text == CHOOSE t \in DOMAIN head_data : ParseInt(t, 0, NumFrames) = k
        IN <<ParseInt(head_data[text][1], 0, Max(GridCoords)),
             ParseInt(head_data[text][2], 0, Max(GridCoords))>>]

LoadSegments(segment_data) ==
    [frame \in {ParseInt(text, 0, NumFrames) : text \in DOMAIN segment_data} |->
        LET text == CHOOSE t \in DOMAIN segment_data :
                        ParseInt(t, 0, NumFrames) = frame
            segments == segment_data[text]
        IN [label \in DOMAIN segments |->
               <<ParseDecimal(segments[label][1]), ParseDecimal(segments[label][2])>>]]

\* A widget set to the value it has emits nothing; set to another value it
\* runs update_display.  An exception in an earlier setter has left
\* load_session already.
set_widget(s, changed, t) ==
    IF s.raised \/ ~changed THEN s ELSE update_display(t)

\* self.roi_offset.setValue(settings.get('roi_offset', 0))
set_roi_offset(s, value) ==
    set_widget(s, value # s.roi_offset, [s EXCEPT !.roi_offset = value])

\* self.detection_method.setCurrentText(...)
set_detection_method(s, value) ==
    set_widget(s, value # s.detection_method, [s EXCEPT !.detection_method = value])

\* self.midline_method.setCurrentText(...)
set_midline_method(s, value) ==
    set_widget(s, value # s.midline_method, [s EXCEPT !.midline_method = value])

\* self.snap_to_roi_cb.setChecked(...): the box has no handler.
set_snap_to_roi(s, value) ==
    IF s.raised THEN s ELSE [s EXCEPT !.snap_enabled = value]

\* self.auto_detect_cb.setChecked(...)
set_auto_detect(s, value) ==
    set_widget(s, value # s.auto_detect, [s EXCEPT !.auto_detect = value])

\* The settings part of load_session: four widgets that run update_display
\* when their value changes, and the snap box.
load_settings(s, settings) ==
    set_auto_detect(
        set_snap_to_roi(
            set_midline_method(
                set_detection_method(
                    set_roi_offset(s, ParseInt(settings.roi_offset,
                                               -MaxOffset, MaxOffset)),
                    settings.detection_method),
                settings.midline_method),
            settings.snap_to_roi),
        settings.auto_detect)

\* The stores replaced by those of the file; the manual marks are history of
\* this run, not of the file.
replace_stores(t, session_data) ==
    [t EXCEPT !.head_positions = LoadPositions(session_data.head_positions),
              !.tail_positions = LoadPositions(session_data.tail_positions),
              !.segment_points = LoadSegments(session_data.segment_points),
              !.head_manual = {},
              !.tail_manual = {}]

\* The closing self.update_display(); an exception in it is caught and
\* leaves the stores as loaded.
show_loaded(loaded, shown) == IF shown.raised THEN loaded ELSE shown

\* load_session of the file session_data.
load_session(s, session_data) ==
    LET t == load_settings(s, session_data.settings)
    IN IF t.raised THEN t
       ELSE LET loaded == replace_stores(t, session_data)
            IN show_loaded(loaded, update_display(loaded))

-----------------------------------------------------------------------------
(* The state machine of a session: a video and contours loaded, the        *)
(* settings changed, frames shown and cleared, segment maps initialised,   *)
(* the session saved and loaded.  probe holds the session file and, for    *)
(* the claims, the stores and settings as they were when it was written.   *)

MaxSessionSteps == 4

SessionMethods == {"Anterior = Top", "Anterior = Bottom", "Manual (click on video)"}

InitSession ==
    /\ \E r \in RoiLists : Holds(Loaded(r))
    /\ steps = 0
    /\ last_op = "load_rois"
    /\ probe = [fn |-> "session", skel |-> NoSkeleton,
                spline |-> [raised |-> FALSE, drift |-> <<30, -20>>],
                file |-> NoFile, saved |-> NoFile]

SessionStep(op) ==
    /\ steps < MaxSessionSteps
    /\ steps' = steps + 1
    /\ last_op' = op

SessionOnFrameChanged ==
    /\ SessionStep("on_frame_changed")
    /\ \E value \in 0 .. total_frames - 1 :
          /\ value # current_frame
          /\ Commit(on_frame_changed(Entry, value))
    /\ UNCHANGED probe

SessionSetRoiOffset ==
    /\ SessionStep("roi_offset_changed")
    /\ \E o \in -MaxOffset .. MaxOffset :
          /\ o # roi_offset
          /\ Commit(update_display([Entry EXCEPT !.roi_offset = o]))
    /\ UNCHANGED probe

SessionSetDetectionMethod ==
    /\ SessionStep("detection_method_changed")
    /\ \E m \in SessionMethods :
          /\ m # detection_method
          /\ Commit(update_display([Entry EXCEPT !.detection_method = m]))
    /\ UNCHANGED probe

\* midline_method.currentIndexChanged -> update_display
SessionSetMidlineMethod ==
    /\ SessionStep("midline_method_changed")
    /\ \E m \in MidlineMethods :
          /\ m # midline_method
          /\ Commit(update_display([Entry EXCEPT !.midline_method = m]))
    /\ UNCHANGED probe

SessionToggleSnap ==
    /\ SessionStep("snap_changed")
    /\ Commit([Entry EXCEPT !.snap_enabled = ~@])
    /\ UNCHANGED probe

SessionToggleAutoDetect ==
    /\ SessionStep("on_auto_detect_changed")
    /\ Commit(update_display([Entry EXCEPT !.auto_detect = ~@]))
    /\ UNCHANGED probe

SessionClearCurrentFrame ==
    /\ SessionStep("clear_current_frame")
    /\ Commit(clear_current_frame(Entry))
    /\ UNCHANGED probe

SessionInitializeSegments ==
    /\ SessionStep("initialize_segments_current")
    /\ Commit(initialize_segments_current(Entry, probe.skel, probe.spline))
    /\ UNCHANGED probe

\* save_session: the file is written, or nothing when there is nothing to
\* save.
SaveSession ==
    /\ SessionStep(IF save_session(Entry) = NoFile THEN "save_session refused"
                   ELSE "save_session")
    /\ probe' = IF save_session(Entry) = NoFile THEN probe
                ELSE [probe EXCEPT
                         !.file = save_session(Entry),
                         !.saved = [head_positions |-> head_positions,
                                    tail_positions |-> tail_positions,
                                    segment_points |-> segment_points,
                                    roi_offset |-> roi_offset,
                                    detection_method |-> detection_method,
                                    midline_method |-> midline_method,
                                    snap_enabled |-> snap_enabled,
                                    auto_detect |-> auto_detect]]
    /\ Commit(Entry)

\* load_session of the file written last.
LoadSession ==
    /\ probe.file # NoFile
    /\ SessionStep("load_session")
    /\ Commit(load_session(Entry, probe.file))
    /\ UNCHANGED probe

NextSession ==
    \/ SessionOnFrameChanged
    \/ SessionSetRoiOffset
    \/ SessionSetDetectionMethod
    \/ SessionSetMidlineMethod
    \/ SessionToggleSnap
    \/ SessionToggleAutoDetect
    \/ SessionClearCurrentFrame
    \/ SessionInitializeSegments
    \/ SaveSession
    \/ LoadSession

SpecSession == InitSession /\ [][NextSession]_vars

\* The settings are those of the file.
SettingsRestored ==
    /\ roi_offset = probe.saved.roi_offset
    /\ detection_method = probe.saved.detection_method
    /\ midline_method = probe.saved.midline_method
    /\ snap_enabled = probe.saved.snap_enabled

AsSaved ==
    [self EXCEPT !.head_positions = probe.saved.head_positions,
                 !.tail_positions = probe.saved.tail_positions]

-----------------------------------------------------------------------------
(* The ordering walk of calculate_skeleton_midline (lines 2251-2310), one  *)
(* loop iteration a step.  Skeleton points are pixels; positions in        *)
(* skel_points are 1-based; w is the walk: the positions appended so far   *)
(* (ordered_points), remaining, current_idx, and whether the loop is left. *)

max_step_distance == 15

min_skeleton_points == 5

\* np.argmin of the distances from current to the points of remaining, as
\* list(remaining)[min_dist_idx]: a set of small integers is iterated in
\* ascending order, so of equally near points the lowest position is taken.
nearest_remaining(skel_points, remaining, current_idx) ==
    ArgMin([i \in remaining |-> Dist2(skel_points[i], skel_points[current_idx])])

\* ordered_points = [skel_points[start_idx]]; remaining without start_idx.
walk_start(skel_points, head) ==
    LET start_idx == NearestIndex(skel_points, head)
    IN [ordered |-> <<start_idx>>,
        remaining |-> DOMAIN skel_points \ {start_idx},
        current_idx |-> start_idx,
        stopped |-> FALSE]

\* The loop left: by its condition or by a break.
walk_left(w) == [w EXCEPT !.stopped = TRUE]

\* A faulty iteration: nearest_idx is not removed from remaining.
walk_append_kept(w, nearest_idx, end_idx) ==
    [ordered |-> Append(w.ordered, nearest_idx),
     remaining |-> w.remaining,
     current_idx |-> nearest_idx,
     stopped |-> nearest_idx = end_idx]

\* A faulty iteration: the walk goes on after end_idx.
walk_append_past_tail(w, nearest_idx, end_idx) ==
    [ordered |-> Append(w.ordered, nearest_idx),
     remaining |-> w.remaining \ {nearest_idx},
     current_idx |-> nearest_idx,
     stopped |-> FALSE]

\* nearest_idx appended, removed from remaining and made current; the loop
\* is left when it is end_idx.
walk_append(w, nearest_idx, end_idx) ==
    [ordered |-> Append(w.ordered, nearest_idx),
     remaining |-> w.remaining \ {nearest_idx},
     current_idx |-> nearest_idx,
     stopped |-> nearest_idx = end_idx]

\* The test of the while loop and one iteration of it.
walk_step(skel_points, end_idx, w) ==
    IF w.remaining = {} \/ Len(w.ordered) >= Len(skel_points) THEN walk_left(w)
    ELSE LET near == nearest_remaining(skel_points, w.remaining, w.current_idx)
             too_far == Dist2(skel_points[near], skel_points[w.current_idx])
                            > max_step_distance * max_step_distance
         IN IF too_far /\ end_idx \notin w.remaining THEN walk_left(w)
            ELSE walk_append(w, IF too_far THEN end_idx ELSE near, end_idx)

\* What calculate_skeleton_midline makes of the walk once the loop is left:
\* None when the path has fewer than 5 points.
path_too_short(w) == Len(w.ordered) < min_skeleton_points

-----------------------------------------------------------------------------
(* The walk as a state machine over skeletons that are rows of pixels with *)
(* or without a gap wider than the step threshold.                         *)

MaxSkeleton == 6

\* A row of n skeleton pixels; Gap pixels are missing after the first
\* gap_after of them when gap_after > 0.
Gap == 20

Row(n, gap_after) ==
    [k \in 1 .. n |-> <<IF gap_after > 0 /\ k > gap_after THEN k + Gap ELSE k, 0>>]

\* A forked skeleton, its pixels in the order np.where gives them (by row).
Fork == << <<1, 0>>, <<2, 0>>, <<3, 0>>, <<4, 0>>, <<5, 0>>, <<3, 1>>, <<3, 2>> >>

WalkSkeletons == {Row(n, g) : n \in 0 .. MaxSkeleton, g \in {0, 2, 4}} \cup {Fork}

WalkEnds == {<<0, 0>>, <<3, 1>>, <<MaxSkeleton + Gap + 4, 0>>}

\* The state at the start of the loop, or at the return of None for fewer
\* than 5 skeleton points (no walk is made).
InitWalk ==
    /\ InitObject
    /\ \E skel_points \in WalkSkeletons, head \in WalkEnds, tail \in WalkEnds :
          probe = [fn |-> "walk", skel_points |-> skel_points,
                   head |-> head, tail |-> tail,
                   end_idx |-> IF Len(skel_points) < min_skeleton_points THEN 0
                               ELSE NearestIndex(skel_points, tail),
                   w |-> IF Len(skel_points) < min_skeleton_points
                         THEN [ordered |-> << >>, remaining |-> {},
                               current_idx |-> 0, stopped |-> TRUE]
                         ELSE walk_start(skel_points, head),
                   failed |-> Len(skel_points) < min_skeleton_points]

\* One evaluation of the loop condition and, when it holds, one iteration.
WalkStep ==
    /\ probe.fn = "walk" /\ ~probe.w.stopped
    /\ LET w == walk_step(probe.skel_points, probe.end_idx, probe.w)
       IN probe' = [probe EXCEPT !.w = w,
                                 !.failed = w.stopped /\ path_too_short(w)]
    /\ MidlineUnchanged

NextWalk == WalkStep

SpecWalk == InitWalk /\ [][NextWalk]_vars

\* The loop is a sequential program: while it is not left it takes its
\* next iteration.
SpecWalkFair == SpecWalk /\ WF_vars(WalkStep)

\* The skeleton points within the step threshold of the point at position i.
Within(i) ==
    {q \in DOMAIN probe.skel_points :
        Dist2(probe.skel_points[q], probe.skel_points[i])
            <= max_step_distance * max_step_distance}

\* The position of the skeleton point nearest tail.
NearestTail == NearestIndex(probe.skel_points, probe.tail)

\* The step has appended the point the walk is to take from the point it
\* was at: the nearest unvisited one when one is within the threshold, the
\* point nearest tail, unvisited until now, when none is.
TakesNearest ==
    LET p == probe'.w.current_idx
        unvisited == probe.w.remaining
        near == unvisited \cap Within(probe.w.current_idx)
        d(q) == Dist2(probe.skel_points[q], probe.skel_points[probe.w.current_idx])
    IN /\ probe'.w.ordered = Append(probe.w.ordered, p)
       /\ p \in unvisited
       /\ probe'.w.remaining = unvisited \ {p}
       /\ IF near # {} THEN p \in near /\ \A q \in unvisited : d(p) <= d(q)
          ELSE p = NearestTail

\* The walk starts at the skeleton point nearest head, and the algorithm
\* has failed exactly when there are fewer than 5 skeleton points or the
\* walk is over with fewer than 5 points.
StartsAndFails ==
    /\ probe.w.ordered # << >> =>
           probe.w.ordered[1] = NearestIndex(probe.skel_points, probe.head)
    /\ probe.failed <=>
           \/ Len(probe.skel_points) < min_skeleton_points
           \/ probe.w.stopped /\ Len(probe.w.ordered) < min_skeleton_points

\* Nothing is left to take from where the walk is: every point is visited,
\* or none is within the threshold and the point nearest tail is visited.
NothingToTake ==
    \/ probe'.w.remaining = {}
    \/ /\ probe'.w.remaining \cap Within(probe'.w.current_idx) = {}
       /\ NearestTail \notin probe'.w.remaining

\* C22: the walk starts at the skeleton point nearest head; each step
\* appends the nearest unvisited point if it is within 15 pixels, and if
\* none is within 15 pixels the point nearest tail when that is unvisited;
\* it stops otherwise, that is only when nothing is left to take; the
\* algorithm fails for fewer than 5 skeleton points or a path of fewer than
\* 5 points.
C22_WalkAsStated ==
    [][probe.fn = "walk" =>
          /\ StartsAndFails'
          /\ probe'.w.ordered # probe.w.ordered => TakesNearest
          /\ probe'.w.stopped => NothingToTake]_vars

\* C22 as the code has it: as above, but the walk also stops as soon as it
\* has appended the point nearest tail, whatever is left unvisited; it
\* stops without appending only when nothing is left to take.
C22_WalkStopsAtTail ==
    [][probe.fn = "walk" =>
          /\ StartsAndFails'
          /\ probe'.w.ordered # probe.w.ordered =>
                 /\ TakesNearest
                 /\ probe'.w.stopped <=> probe'.w.current_idx = NearestTail
          /\ probe'.w.ordered = probe.w.ordered =>
                 probe'.w.stopped /\ NothingToTake]_vars

\* C22 witness: a walk that went over a gap wider than the threshold to the
\* point nearest tail, leaving a point unvisited, and gave a path of 5
\* points.
C22_Witness ==
    /\ probe.fn = "walk"
    /\ probe.w.stopped
    /\ ~probe.failed
    /\ probe.w.remaining # {}
    /\ probe.w.current_idx = NearestTail
    /\ \E k \in 1 .. Len(probe.w.ordered) - 1 :
          probe.w.ordered[k + 1] \notin Within(probe.w.ordered[k])

\* C28: the ordering loop terminates, and the ordered path holds no
\* skeleton point more than once and has at most as many points as the
\* skeleton.
C28_WalkTerminates ==
    /\ [](probe.fn = "walk" =>
            /\ \A j, k \in DOMAIN probe.w.ordered :
                  probe.w.ordered[j] = probe.w.ordered[k] => j = k
            /\ Range(probe.w.ordered) \subseteq DOMAIN probe.skel_points
            /\ Len(probe.w.ordered) <= Len(probe.skel_points))
    /\ <>(probe.fn = "walk" /\ probe.w.stopped)

\* C28 witness: a walk over as many iterations as the skeleton has points
\* but one, left with every point taken once.
C28_Witness ==
    /\ probe.fn = "walk"
    /\ probe.w.stopped
    /\ Len(probe.skel_points) >= min_skeleton_points
    /\ Len(probe.w.ordered) = Len(probe.skel_points)
    /\ probe.w.remaining = {}

-----------------------------------------------------------------------------
(* The side paths and the sampled positions of calculate_segment_points as *)
(* pure functions of the list lengths and of the positions nearest head    *)
(* and tail.                                                               *)

MaxRing == 7

LandmarkFunctions == {"side_paths", "sample_index"}

InitLandmark ==
    /\ InitObject
    /\ \E fn \in LandmarkFunctions, n \in 1 .. MaxPathLen, i \in 0 .. n_segments - 1 :
          \E head_idx \in 1 .. n, tail_idx \in 1 .. n :
             /\ fn = "side_paths" => n <= MaxRing /\ i = 0
             /\ fn = "sample_index" => head_idx = 1 /\ tail_idx = n
             /\ probe = [fn |-> fn, n |-> n, i |-> i, head_idx |-> head_idx,
                         tail_idx |-> tail_idx, done |-> FALSE, out |-> << >>]

SidePaths ==
    /\ probe.fn = "side_paths" /\ ~probe.done
    /\ probe' = [probe EXCEPT !.done = TRUE,
                    !.out = side_paths(probe.head_idx, probe.tail_idx, probe.n)]
    /\ MidlineUnchanged

SampleIndexAt ==
    /\ probe.fn = "sample_index" /\ ~probe.done
    /\ probe' = [probe EXCEPT !.done = TRUE, !.out = SampleIndex(probe.i, probe.n)]
    /\ MidlineUnchanged

NextLandmark == SidePaths \/ SampleIndexAt

SpecLandmark == InitLandmark /\ [][NextLandmark]_vars

\* The integers nearest to t * (n - 1) for t = (1 + 2 i) / 20, both
\* neighbours when it lies halfway, brought into 0 .. n - 1.
RoundedIndices(i, n) ==
    LET product == (1 + 2 * i) * (n - 1)
        nearest == {k \in 0 .. n : Abs(20 * k - product) <= 10}
    IN {IF k > n - 1 THEN n - 1 ELSE k : k \in nearest}

\* C23: the landmark position sampled for segment i of a list of n points
\* is round(t * (n - 1)) clamped to 0 .. n - 1, t = 0.05 + (i / 9) * 0.9.
C23_RoundedIndex ==
    (probe.fn = "sample_index" /\ probe.done) =>
        probe.out \in RoundedIndices(probe.i, probe.n)

\* C23 as the code has it: the position is t * (n - 1) truncated to an
\* integer, int(), not rounded, and at most n - 1; it is the integer part of
\* (1 + 2 i) (n - 1) / 20, or one less where that quotient is an integer
\* that the floating-point product falls short of.
C23_TruncatedIndex ==
    (probe.fn = "sample_index" /\ probe.done) =>
        LET product == (1 + 2 * probe.i) * (probe.n - 1)
        IN /\ probe.out \in 0 .. probe.n - 1
           /\ \/ probe.out = product \div 20
              \/ probe.out = product \div 20 - 1 /\ product % 20 = 0

\* C23 witness: a sampled position that is the truncated product and not
\* the rounded one, away from both ends of the list.
C23_Witness ==
    /\ probe.fn = "sample_index" /\ probe.done
    /\ probe.out \notin RoundedIndices(probe.i, probe.n)
    /\ probe.out > 0
    /\ probe.out < probe.n - 1

\* C24: when the contour positions nearest head and tail differ, both side
\* paths run from the one to the other, the left path has no more points
\* than the right one, together they hold every contour position, and they
\* share the two end positions only.
C24_SidePaths ==
    (probe.fn = "side_paths" /\ probe.done /\ probe.head_idx # probe.tail_idx) =>
        LET left == probe.out.left
            right == probe.out.right
        IN /\ left[1] = probe.head_idx /\ left[Len(left)] = probe.tail_idx
           /\ right[1] = probe.head_idx /\ right[Len(right)] = probe.tail_idx
           /\ Len(left) <= Len(right)
           /\ Range(left) \cup Range(right) = 1 .. probe.n
           /\ Range(left) \cap Range(right) = {probe.head_idx, probe.tail_idx}

\* C24 witness: head is nearest a later contour position than tail, and the
\* left path is the one that wraps past the end of the contour.
C24_Witness ==
    /\ probe.fn = "side_paths" /\ probe.done
    /\ probe.head_idx > probe.tail_idx
    /\ Len(probe.out.left) < Len(probe.out.right)
    /\ Len(probe.out.left) > 2
    /\ probe.n \in Range(probe.out.left)

\* C26: for a list of n >= 2 points none of the sampled positions is 0 or
\* n - 1.
C26_NeverAtEnds ==
    (probe.fn = "sample_index" /\ probe.done /\ probe.n >= 2) =>
        probe.out \notin {0, probe.n - 1}

-----------------------------------------------------------------------------
(* The density step of snap_segment_to_roi as a pure function of the       *)
(* candidate path (the contour arc, or the part of the midline, between    *)
(* the two neighbours).                                                    *)

MaxGaps == 3

\* Distances in pixels between consecutive points of a candidate path.
GapSizes == {1, 3, 4, 6, 7}

\* The path along a row that starts at the origin and has the given gaps.
RECURSIVE PathOf(_, _)
PathOf(gaps, from) ==
    IF gaps = << >> THEN <<Fix(<<from, 0>>)>>
    ELSE <<Fix(<<from, 0>>)>> \o PathOf(Tail(gaps), from + Head(gaps))

CandidatePaths ==
    {PathOf(gaps, 0) : gaps \in UNION {[1 .. k -> GapSizes] : k \in 0 .. MaxGaps}}

InitDense ==
    /\ InitObject
    /\ \E valid_points \in CandidatePaths :
          probe = [fn |-> "dense", valid_points |-> valid_points,
                   done |-> FALSE, out |-> << >>]

DensePath ==
    /\ probe.fn = "dense" /\ ~probe.done
    /\ probe' = [probe EXCEPT !.done = TRUE, !.out = Dense(probe.valid_points)]
    /\ MidlineUnchanged

NextDense == DensePath

SpecDense == InitDense /\ [][NextDense]_vars

\* Some consecutive points of the path lie more than limit apart.
HasGapOver(points, limit) ==
    \E k \in 1 .. Len(points) - 1 : Dist2(points[k], points[k + 1]) > limit * limit

\* The spacing of the path is more than desired_spacing on average.
MeanOver(points) ==
    Len(points) > 1 /\
    SumOver(1 .. Len(points) - 1,
            [k \in 1 .. Len(points) - 1 |-> Spacing(points[k], points[k + 1])])
        > desired_spacing * (Len(points) - 1)

\* C25: whenever the candidate path has a consecutive gap larger than 3
\* pixels, the path searched for the nearest point has no consecutive gap
\* larger than 3 pixels.
C25_NoGapOverThree ==
    (probe.fn = "dense" /\ probe.done
        /\ HasGapOver(probe.valid_points, desired_spacing)) =>
        ~HasGapOver(probe.out, desired_spacing)

\* C25 as the code has it: when the gaps of the candidate path exceed 3
\* pixels on average or any gap exceeds 6 pixels, the path searched has no
\* gap over 3 pixels, begins and ends where the candidate path does and
\* keeps its points; otherwise the candidate path is searched as it is,
\* with gaps of up to 6 pixels.
C25_DenseByMeanOrTwice ==
    (probe.fn = "dense" /\ probe.done) =>
        IF MeanOver(probe.valid_points)
              \/ HasGapOver(probe.valid_points, 2 * desired_spacing)
        THEN /\ ~HasGapOver(probe.out, desired_spacing)
             /\ probe.out[1] = probe.valid_points[1]
             /\ probe.out[Len(probe.out)] = probe.valid_points[Len(probe.valid_points)]
             /\ Range(probe.valid_points) \subseteq Range(probe.out)
        ELSE /\ probe.out = probe.valid_points
             /\ ~HasGapOver(probe.out, 2 * desired_spacing)

\* C25 witness: a path of 1, 1 and 7 pixel gaps, 3 pixels on average, made
\* denser because of its one wide gap.
C25_Witness ==
    /\ probe.fn = "dense" /\ probe.done
    /\ ~MeanOver(probe.valid_points)
    /\ HasGapOver(probe.valid_points, 2 * desired_spacing)
    /\ Len(probe.out) > Len(probe.valid_points)
    /\ ~HasGapOver(probe.out, desired_spacing)


-----------------------------------------------------------------------------
(* The report of the batch contour detection *)

\* C27: when auto_detect_roi_batch runs over all frames without being
\* cancelled, every frame is counted as a success or recorded as failed,
\* whatever the ROI offset: success_count + len(failed_frames) is the
\* number of frames.
C27_EveryFrameAccounted ==
    [][(last_op' = "auto_detect_roi_batch" /\ probe'.cancel_at >= total_frames) =>
          \A detected \in Detections :
             LET report == batch_report(Entry, probe'.cancel_at, detected)
             IN report.success_count + Len(report.failed_frames) = total_frames]_vars

-----------------------------------------------------------------------------
(* ROI files.  A file is the sequence of its bytes; position k of the      *)
(* sequence is the byte at offset k - 1.                                   *)

\* struct.pack('>h', v): two bytes, big-endian, two's complement.
PackShort(v) ==
    LET u == (v + 65536) % 65536
    IN <<u \div 256, u % 256>>

\* struct.pack('>B', 0), struct.pack('>i', v) and struct.pack('>f', 0).
PackByte(v) == <<v>>

PackInt(v) == <<0, 0>> \o PackShort(v)

PackFloatZero == <<0, 0, 0, 0>>

\* b'Iout'
Magic == <<73, 111, 117, 116>>

\* data[from:to]: what there is of it.
Slice(data, from, to) ==
    SubSeq(data, from + 1, IF to < Len(data) THEN to ELSE Len(data))

\* struct.unpack('>h', bytes)[0]; struct.error unless there are two bytes.
CanUnpack(bytes) == Len(bytes) = 2

UnpackShort(bytes) ==
    LET u == bytes[1] * 256 + bytes[2]
    IN IF u >= 32768 THEN u - 65536 ELSE u

RECURSIVE Concat(_)
Concat(seqs) == IF seqs = << >> THEN << >> ELSE Head(seqs) \o Concat(Tail(seqs))

\* write_roi_file: the bytes written for roi_points.
write_roi_file(roi_points) ==
    LET left == Min(Range(Xs(roi_points)))
        top == Min(Range(Ys(roi_points)))
        right == Max(Range(Xs(roi_points)))
        bottom == Max(Range(Ys(roi_points)))
    IN Magic
       \o PackShort(228) \o PackShort(0)
       \o PackShort(top) \o PackShort(left) \o PackShort(bottom) \o PackShort(right)
       \o PackShort(Len(roi_points))
       \o PackFloatZero \o PackFloatZero \o PackFloatZero \o PackFloatZero
       \o PackShort(0) \o PackShort(0) \o PackShort(0) \o PackShort(0)
       \o PackShort(0) \o PackShort(0)
       \o PackByte(0) \o PackByte(0)
       \o PackShort(0)
       \o PackInt(0) \o PackInt(64)
       \o Concat([k \in DOMAIN roi_points |-> PackShort(roi_points[k][1] - left)])
       \o Concat([k \in DOMAIN roi_points |-> PackShort(roi_points[k][2] - top)])

coords_start == 64

\* read_roi_file with the coordinate block taken to begin at offset start:
\* the points, or None (an unpack of fewer than two bytes raises, and the
\* exception is caught).
read_roi_from(data, start) ==
    IF Slice(data, 0, 4) # Magic THEN NoRoi
    ELSE IF \E k \in {8, 10, 12, 14, 16} : ~CanUnpack(Slice(data, k, k + 2))
    THEN NoRoi
    ELSE LET top == UnpackShort(Slice(data, 8, 10))
             left == UnpackShort(Slice(data, 10, 12))
             n_coords == UnpackShort(Slice(data, 16, 18))
             x_bytes(i) == Slice(data, start + i * 2, start + i * 2 + 2)
             y_bytes(i) == Slice(data, start + n_coords * 2 + i * 2,
                                 start + n_coords * 2 + i * 2 + 2)
         IN IF n_coords > 0
            THEN IF \E i \in 0 .. n_coords - 1 :
                        ~CanUnpack(x_bytes(i)) \/ ~CanUnpack(y_bytes(i))
                 THEN NoRoi
                 ELSE [k \in 1 .. n_coords |->
                          <<left + UnpackShort(x_bytes(k - 1)),
                            top + UnpackShort(y_bytes(k - 1))>>]
            ELSE NoRoi

read_roi_file(data) == read_roi_from(data, coords_start)

\* Polygons written and read back: the grid contours, and one with negative
\* and two-byte coordinates.
RoiFilePolygons ==
    Contours \cup {<< <<-3, 300>>, <<258, -1>>, <<0, 0>>, <<1, 2>>, <<-300, 7>> >>}

InitRoiFile ==
    /\ InitObject
    /\ \E roi_points \in RoiFilePolygons :
          probe = [fn |-> "roi_file", roi |-> roi_points, done |-> FALSE,
                   data |-> << >>, out |-> NoRoi]

\* save_rois writes the contour; parse_imagej_roi reads the file.
WriteAndReadRoi ==
    /\ probe.fn = "roi_file" /\ ~probe.done
    /\ LET data == write_roi_file(probe.roi)
       IN probe' = [probe EXCEPT !.done = TRUE, !.data = data,
                                 !.out = read_roi_file(data)]
    /\ MidlineUnchanged

NextRoiFile == WriteAndReadRoi

SpecRoiFile == InitRoiFile /\ [][NextRoiFile]_vars

\* C29: read_roi_file of the bytes written by write_roi_file for a polygon
\* of one or more points with 16-bit coordinates is the same sequence of
\* points.
C29_RoiFileRoundTrip ==
    (probe.fn = "roi_file" /\ probe.done) => probe.out = probe.roi


-----------------------------------------------------------------------------
(* The stored body angles *)

\* C30: in every reachable state each frame that has a stored body angle
\* has both a head and a tail, and the stored angle is the body angle of
\* that head and tail.
C30_NoStaleAngle ==
    \A f \in DOMAIN body_angles :
        /\ HasBoth(self, f)
        /\ body_angles[f] = calculate_body_angle(head_positions[f], tail_positions[f])

=============================================================================
